---- MODULE Spec2Model ----
(***************************************************************************)
(* The YOT/YOS swap and staking programs of ssisaa/TokenSwapSolana as      *)
(* state machines.  The repository holds several revisions of the same     *)
(* on-chain program; each revision that the verified properties speak      *)
(* about is modelled by its own handlers and has its own specification:    *)
(*                                                                         *)
(*   Spec         program/src/multi_hub_swap.rs                            *)
(*   SpecArchive  archive/multi_hub_swap.rs (claim / withdraw / buy)       *)
(*   SpecManual   program/src/manual_serialization.rs                      *)
(*   SpecStaking  program/src/lib.rs (the staking program)                 *)
(*                                                                         *)
(* A handler is an operator from the accounts, the token balances, the     *)
(* clock and the instruction's inputs to a result: the ProgramResult it    *)
(* returns and the accounts and balances it leaves.  The runtime commits   *)
(* the result of an instruction that returns Ok and discards every write   *)
(* of one that returns Err or panics.                                      *)
(***************************************************************************)
EXTENDS Integers, Sequences, FiniteSets, TLC

VARIABLES
    accounts,         \* program-owned accounts: key -> account data
    tok,              \* SPL token accounts: key -> amount
    now,              \* Clock::unix_timestamp
    overflow_checks,  \* build profile: does unchecked integer overflow panic?
    last,             \* the last committed instruction: handler, signer, accounts
    ops,              \* number of instructions committed so far
    claimed           \* ledger key -> times of the successful claims on it

vars == <<accounts, tok, now, overflow_checks, last, ops, claimed>>

---------------------------------------------------------------------------
(* Bounds of the model.                                                    *)

MaxOps == 3          \* committed instructions per behaviour
MaxArchiveOps == 5   \* the same, for the archived revision
MaxCompleteOps == 3  \* the same, for the revision with byte buffers
MaxWeeks == 2        \* the clock runs for this many cooldown periods
StartTime == 1700000000
InitialYot == 2000000

---------------------------------------------------------------------------
(* Unsigned 64-bit arithmetic, scaled to the integers TLC evaluates.       *)
(* U64_MODULUS stands for 2^64: values are 0 .. U64_MODULUS - 1.  Every    *)
(* operator is computed without leaving that range.                        *)

U64_MODULUS == 1073741823 * 2 + 1
U64_MAX == U64_MODULUS - 1

add_overflows(a, b) == a >= U64_MODULUS - b
wrapping_add(a, b) == IF add_overflows(a, b) THEN a - (U64_MODULUS - b) ELSE a + b
sub_overflows(a, b) == a < b
wrapping_sub(a, b) == IF a < b THEN U64_MODULUS - (b - a) ELSE a - b
mul_overflows(a, b) == a # 0 /\ b > U64_MAX \div a

RECURSIVE mul_mod(_, _)
mul_mod(a, b) ==
    IF b = 0 THEN 0
    ELSE LET h == mul_mod(a, b \div 2)
             d == wrapping_add(h, h)
         IN  IF b % 2 = 1 THEN wrapping_add(d, a) ELSE d
wrapping_mul(a, b) == IF mul_overflows(a, b) THEN mul_mod(a, b) ELSE a * b

---------------------------------------------------------------------------
(* Keys.                                                                   *)

Users == {"alice", "bob"}                       \* the wallets that hold tokens
DefaultPubkey == "default"                      \* Pubkey::default()
YOT_MINT == "YOT"
YOS_MINT == "YOS"
Mints == {YOT_MINT, YOS_MINT}

find_program_state_address == "pda:state"
find_program_authority_address == "pda:authority"
find_liquidity_contribution_address_shared(user) == "pda:liq:alice"
find_liquidity_contribution_address(user) == "pda:liq:" \o user

LedgerKeys == {find_liquidity_contribution_address(u) : u \in Users}
SwapAccountKeys == {find_program_state_address} \cup LedgerKeys

(* Account data.  A created account holds zeroed bytes of its size; Borsh  *)
(* reads a value only from data of exactly the value's size.               *)
EmptyData == [kind |-> "empty"]
ProgramState(admin, yot_mint, yos_mint, rates) ==
    [kind |-> "ProgramState", admin |-> admin, yot_mint |-> yot_mint,
     yos_mint |-> yos_mint,
     lp_contribution_rate |-> rates.lp, admin_fee_rate |-> rates.fee,
     yos_cashback_rate |-> rates.cashback, swap_fee_rate |-> rates.swap,
     referral_rate |-> rates.referral]
LiquidityContribution(user, contributed_amount, start_timestamp, last_claim_time, total_claimed_yos) ==
    [kind |-> "LiquidityContribution", user |-> user,
     contributed_amount |-> contributed_amount,
     start_timestamp |-> start_timestamp, last_claim_time |-> last_claim_time,
     total_claimed_yos |-> total_claimed_yos]
ZeroedLiquidityContribution == LiquidityContribution(DefaultPubkey, 0, 0, 0, 0)

data_is_empty(data) == data.kind = "empty"
try_from_slice(kind, data) == data.kind = kind

---------------------------------------------------------------------------
(* The SPL token program, as far as the handlers use it.                   *)

TokenAccounts ==
    {"alice_yot", "bob_yot", "vault_yot", "liquidity_yot",
     "alice_yos", "bob_yos", "program_yos"}
TokenOwner(t) ==
    CASE t \in {"alice_yot", "alice_yos"} -> "alice"
      [] t \in {"bob_yot", "bob_yos"} -> "bob"
      [] OTHER -> find_program_authority_address
TokenMint(t) ==
    IF t \in {"alice_yot", "bob_yot", "vault_yot", "liquidity_yot"}
    THEN YOT_MINT ELSE YOS_MINT
MintAuthority(m) == IF m = YOS_MINT THEN find_program_authority_address ELSE "admin"

(* spl_token transfer: the authority owns the source, the mints agree, the *)
(* source holds the amount.  cpi_ok is the rest of the token program's and *)
(* the runtime's verdict on the invocation.                                *)
transfer_ok(t, src, dst, authority, amount, cpi_ok) ==
    /\ cpi_ok
    /\ TokenOwner(src) = authority
    /\ TokenMint(src) = TokenMint(dst)
    /\ t[src] >= amount
    /\ src # dst => ~add_overflows(t[dst], amount)
transfer(t, src, dst, amount) ==
    IF src = dst THEN t
    ELSE [t EXCEPT ![src] = @ - amount, ![dst] = @ + amount]

mint_to_ok(t, mint, dst, authority, amount, cpi_ok) ==
    /\ cpi_ok
    /\ MintAuthority(mint) = authority
    /\ TokenMint(dst) = mint
    /\ ~add_overflows(t[dst], amount)
mint_to(t, dst, amount) == [t EXCEPT ![dst] = @ + amount]

---------------------------------------------------------------------------
(* Results of a handler.                                                   *)

Ok(a, t) == [err |-> "Ok", why |-> "", accounts |-> a, tok |-> t]
Write(key, data) == [accounts EXCEPT ![key] = data]
Err(e, why) == [err |-> e, why |-> why]
(* An error returned after the handler wrote a and t.                      *)
Abort(e, why, a, t) == [err |-> e, why |-> why, accounts |-> a, tok |-> t]
Panic == Err("Panic", "arithmetic overflow")

---------------------------------------------------------------------------
(* program/src/multi_hub_swap.rs                                           *)

BASIS_POINTS == 10000
COOLDOWN_SECONDS == 604800
WEEKLY_RATE_BPS == 192

(* An unchecked u64 expression: its wrapped value, and whether it left the *)
(* range on the way (a panic when the build checks overflow).              *)
total_deductions(rates) ==
    LET s1 == wrapping_add(rates.lp, rates.fee)
        s2 == wrapping_add(s1, rates.cashback)
        s3 == wrapping_add(s2, rates.swap)
    IN  [value |-> wrapping_add(s3, rates.referral),
         overflow |-> \/ add_overflows(rates.lp, rates.fee)
                      \/ add_overflows(s1, rates.cashback)
                      \/ add_overflows(s2, rates.swap)
                      \/ add_overflows(s3, rates.referral)]

(* lines 552-554: liquidity and cashback by rate, the user the residual.   *)
distribution_min_fee(amount, lp_rate, cashback_rate) == [user_amount |-> 0, liquidity_amount |-> 1, cashback_amount |-> 0, overflow |-> amount = 0]
distribution_gross(amount, lp_rate, cashback_rate) == [user_amount |-> 0, liquidity_amount |-> amount, cashback_amount |-> 0, overflow |-> FALSE]
distribution(amount, lp_rate, cashback_rate) ==
    LET liquidity_amount == wrapping_mul(amount, lp_rate) \div BASIS_POINTS
        cashback_amount == wrapping_mul(amount, cashback_rate) \div BASIS_POINTS
        rest == wrapping_sub(amount, liquidity_amount)
    IN  [user_amount |-> wrapping_sub(rest, cashback_amount),
         liquidity_amount |-> liquidity_amount,
         cashback_amount |-> cashback_amount,
         overflow |-> \/ mul_overflows(amount, lp_rate)
                      \/ mul_overflows(amount, cashback_rate)
                      \/ sub_overflows(amount, liquidity_amount)
                      \/ sub_overflows(rest, cashback_amount)]

weekly_reward(contributed_amount) ==
    [value |-> wrapping_mul(contributed_amount, WEEKLY_RATE_BPS) \div BASIS_POINTS,
     overflow |-> mul_overflows(contributed_amount, WEEKLY_RATE_BPS)]

process_initialize(payer_signs, state_key, authority_key, admin, yot_mint, yos_mint, rates, cpi_ok) ==
    IF ~payer_signs THEN Err("MissingRequiredSignature", "payer")
    ELSE IF find_program_state_address # state_key
    THEN Err("InvalidAccountData", "program state address")
    ELSE IF find_program_authority_address # authority_key
    THEN Err("InvalidAccountData", "program authority address")
    ELSE IF data_is_empty(accounts[state_key]) /\ ~cpi_ok
    THEN Err("Custom", "create_account")
    ELSE Ok(Write(state_key, ProgramState(admin, yot_mint, yos_mint, rates)), tok)

process_close_program(admin_account, admin_signs, state_key) ==
    IF ~admin_signs THEN Err("MissingRequiredSignature", "admin")
    ELSE IF find_program_state_address # state_key
    THEN Err("InvalidAccountData", "program state address")
    ELSE IF ~try_from_slice("ProgramState", accounts[state_key])
    THEN Err("BorshIoError", "program state")
    ELSE IF accounts[state_key].admin # admin_account
    THEN Err("InvalidAccountData", "Unauthorized")
    \* the account is left without lamports and zero-filled: the runtime
    \* removes it when the transaction commits
    ELSE Ok(Write(state_key, EmptyData), tok)

process_update_parameters(admin_account, admin_signs, state_key, rates) ==
    IF ~admin_signs THEN Err("MissingRequiredSignature", "admin")
    ELSE IF find_program_state_address # state_key
    THEN Err("InvalidAccountData", "program state address")
    ELSE IF ~try_from_slice("ProgramState", accounts[state_key])
    THEN Err("BorshIoError", "program state")
    ELSE IF accounts[state_key].admin # admin_account
    THEN Err("InvalidAccountData", "Unauthorized")
    ELSE IF total_deductions(rates).overflow /\ overflow_checks THEN Panic
    ELSE IF total_deductions(rates).value > BASIS_POINTS
    THEN Err("InvalidArgument", "rates exceed 100%")
    ELSE LET s == accounts[state_key]
         IN  Ok(Write(state_key, ProgramState(s.admin, s.yot_mint, s.yos_mint, rates)),
                tok)

(* The three token invocations of BuyAndDistribute, lines 615-679, in      *)
(* order; each is skipped for a zero amount.  FALSE when one of them fails.*)
buy_transfers_ok(user, vault_yot, user_yot, liquidity_yot, yos_mint, user_yos, d, cpi_ok) ==
    LET t1 == IF d.user_amount > 0
              THEN transfer(tok, vault_yot, user_yot, d.user_amount) ELSE tok
        t2 == IF d.liquidity_amount > 0
              THEN transfer(t1, vault_yot, liquidity_yot, d.liquidity_amount) ELSE t1
    IN  /\ d.user_amount > 0 =>
              transfer_ok(tok, vault_yot, user_yot, user, d.user_amount, cpi_ok)
        /\ d.liquidity_amount > 0 =>
              transfer_ok(t1, vault_yot, liquidity_yot, user, d.liquidity_amount, cpi_ok)
        /\ d.cashback_amount > 0 =>
              mint_to_ok(t2, yos_mint, user_yos, find_program_authority_address,
                         d.cashback_amount, cpi_ok)
buy_transfers(vault_yot, user_yot, liquidity_yot, user_yos, d) ==
    LET t1 == IF d.user_amount > 0
              THEN transfer(tok, vault_yot, user_yot, d.user_amount) ELSE tok
        t2 == IF d.liquidity_amount > 0
              THEN transfer(t1, vault_yot, liquidity_yot, d.liquidity_amount) ELSE t1
    IN  IF d.cashback_amount > 0 THEN mint_to(t2, user_yos, d.cashback_amount) ELSE t2

process_buy_and_distribute(user, user_signs, vault_yot, user_yot, liquidity_yot, yos_mint, user_yos, liq_key, state_key, amount, cpi_ok) ==
    IF ~user_signs THEN Err("MissingRequiredSignature", "user")
    ELSE IF find_program_state_address # state_key
    THEN Err("InvalidAccountData", "program state address")
    ELSE IF ~try_from_slice("ProgramState", accounts[state_key])
    THEN Err("BorshIoError", "program state")
    ELSE IF accounts[state_key].yos_mint # yos_mint
    THEN Err("InvalidAccountData", "YOS mint")
    ELSE
    LET s == accounts[state_key]
        d == distribution(amount, s.lp_contribution_rate, s.yos_cashback_rate)
        old == IF data_is_empty(accounts[liq_key])
               THEN ZeroedLiquidityContribution ELSE accounts[liq_key]
        contribution ==
            LiquidityContribution(
                user,
                wrapping_add(old.contributed_amount, d.liquidity_amount),
                IF old.start_timestamp = 0 THEN now ELSE old.start_timestamp,
                IF old.last_claim_time = 0 THEN now ELSE old.last_claim_time,
                old.total_claimed_yos)
    IN  IF d.overflow /\ overflow_checks THEN Panic
        ELSE IF find_liquidity_contribution_address(user) # liq_key
        THEN Err("InvalidAccountData", "ledger address")
        ELSE IF data_is_empty(accounts[liq_key]) /\ ~cpi_ok
        THEN Err("Custom", "create_account")
        ELSE IF add_overflows(old.contributed_amount, d.liquidity_amount)
                /\ overflow_checks
        THEN Panic
        ELSE IF ~buy_transfers_ok(user, vault_yot, user_yot, liquidity_yot, yos_mint,
                                  user_yos, d, cpi_ok)
        THEN Err("Custom", "token program")
        ELSE Ok(Write(liq_key, contribution),
                buy_transfers(vault_yot, user_yot, liquidity_yot, user_yos, d))

(* lines 731-743: the cooldown gate of a claim.                            *)
too_early_inclusive(contribution) ==
    now - contribution.last_claim_time <= COOLDOWN_SECONDS
too_early(contribution) ==
    now - contribution.last_claim_time < COOLDOWN_SECONDS

(* lines 725-729: a ledger without a contribution earns nothing.           *)
nothing_to_claim_never(contribution) == FALSE
nothing_to_claim(contribution) == contribution.contributed_amount = 0

(* lines 771-773: the ledger a claim stores.                               *)
claim_update_keeps_time(contribution, reward_value) ==
    [contribution EXCEPT !.total_claimed_yos = wrapping_add(@, reward_value)]
claim_update(contribution, reward_value) ==
    [contribution EXCEPT !.last_claim_time = now,
                         !.total_claimed_yos = wrapping_add(@, reward_value)]

process_claim_weekly_reward_partial(caller_signs, user_key, liq_key, yos_mint, user_yos, cpi_ok) ==
    IF ~caller_signs THEN Err("MissingRequiredSignature", "caller")
    ELSE IF find_liquidity_contribution_address(user_key) # liq_key
    THEN Err("InvalidAccountData", "ledger address")
    ELSE IF ~try_from_slice("LiquidityContribution", accounts[liq_key])
    THEN Err("BorshIoError", "ledger")
    ELSE
    LET contribution == accounts[liq_key]
        reward == weekly_reward(contribution.contributed_amount)
        paid == mint_to_ok(tok, yos_mint, user_yos, find_program_authority_address,
                           reward.value, cpi_ok)
    IN  IF contribution.user # user_key
        THEN Err("InvalidAccountData", "ledger user")
        ELSE IF contribution.contributed_amount = 0
        THEN Err("InvalidArgument", "NothingToClaim")
        ELSE IF too_early(contribution)
        THEN Err("InvalidArgument", "TooEarly")
        ELSE IF reward.overflow /\ overflow_checks THEN Panic
        ELSE IF add_overflows(contribution.total_claimed_yos, reward.value)
                /\ overflow_checks
        THEN Panic
        ELSE Ok(Write(liq_key,
                      LiquidityContribution(
                          contribution.user, contribution.contributed_amount,
                          contribution.start_timestamp, now,
                          wrapping_add(contribution.total_claimed_yos, reward.value))),
                IF paid THEN mint_to(tok, user_yos, reward.value) ELSE tok)
process_claim_weekly_reward(caller_signs, user_key, liq_key, yos_mint, user_yos, cpi_ok) ==
    IF ~caller_signs THEN Err("MissingRequiredSignature", "caller")
    ELSE IF find_liquidity_contribution_address(user_key) # liq_key
    THEN Err("InvalidAccountData", "ledger address")
    ELSE IF ~try_from_slice("LiquidityContribution", accounts[liq_key])
    THEN Err("BorshIoError", "ledger")
    ELSE
    LET contribution == accounts[liq_key]
        reward == weekly_reward(contribution.contributed_amount)
    IN  IF contribution.user # user_key
        THEN Err("InvalidAccountData", "ledger user")
        ELSE IF nothing_to_claim(contribution)
        THEN Err("InvalidArgument", "NothingToClaim")
        ELSE IF too_early(contribution)
        THEN Err("InvalidArgument", "TooEarly")
        ELSE IF reward.overflow /\ overflow_checks THEN Panic
        ELSE IF ~mint_to_ok(tok, yos_mint, user_yos, find_program_authority_address,
                            reward.value, cpi_ok)
        THEN Err("Custom", "token program")
        ELSE IF add_overflows(contribution.total_claimed_yos, reward.value)
                /\ overflow_checks
        THEN Panic
        ELSE Ok(Write(liq_key, claim_update(contribution, reward.value)),
                mint_to(tok, user_yos, reward.value))

(* lines 847-853: the ledger a withdrawal stores.                          *)
withdrawn_reset(user, contribution) == LiquidityContribution(user, 0, 0, 0, 0)
withdrawn_default_owner(user, contribution) == [contribution EXCEPT !.user = DefaultPubkey, !.contributed_amount = 0]
withdrawn(user, contribution) == LiquidityContribution(user, 0, contribution.start_timestamp, contribution.last_claim_time, contribution.total_claimed_yos)

process_withdraw_contribution(user, user_signs, liq_key, liquidity_yot, user_yot, cpi_ok) ==
    IF ~user_signs THEN Err("MissingRequiredSignature", "user")
    ELSE IF find_liquidity_contribution_address(user) # liq_key
    THEN Err("InvalidAccountData", "ledger address")
    ELSE IF ~try_from_slice("LiquidityContribution", accounts[liq_key])
    THEN Err("BorshIoError", "ledger")
    ELSE
    LET contribution == accounts[liq_key]
    IN  IF contribution.user # user
        THEN Err("InvalidAccountData", "ledger user")
        ELSE IF contribution.contributed_amount = 0
        THEN Err("InvalidArgument", "NothingToWithdraw")
        ELSE IF ~transfer_ok(tok, liquidity_yot, user_yot, find_program_authority_address,
                             contribution.contributed_amount, cpi_ok)
        THEN Err("Custom", "token program")
        ELSE Ok(Write(liq_key, withdrawn(user, contribution)),
                transfer(tok, liquidity_yot, user_yot, contribution.contributed_amount))

(* Instruction discriminators, lines 51-57, and process_instruction, lines *)
(* 62-245: the handler the first byte of the instruction data selects.     *)
INITIALIZE_IX == 0
SWAP_IX == 1
CLOSE_PROGRAM_IX == 2
UPDATE_PARAMETERS_IX == 3
BUY_AND_DISTRIBUTE_IX == 4
CLAIM_WEEKLY_REWARD_IX == 5
WITHDRAW_CONTRIBUTION_IX == 6
process_instruction(instruction_data) ==
    IF instruction_data = <<>> THEN "InvalidInstructionData"
    ELSE CASE Head(instruction_data) = INITIALIZE_IX -> "Initialize"
           [] Head(instruction_data) = SWAP_IX -> "Swap"
           [] Head(instruction_data) = CLOSE_PROGRAM_IX -> "CloseProgram"
           [] Head(instruction_data) = UPDATE_PARAMETERS_IX -> "UpdateParameters"
           [] Head(instruction_data) = BUY_AND_DISTRIBUTE_IX -> "BuyAndDistribute"
           [] Head(instruction_data) = CLAIM_WEEKLY_REWARD_IX -> "ClaimWeeklyReward"
           [] Head(instruction_data) = WITHDRAW_CONTRIBUTION_IX -> "WithdrawContribution"
           [] OTHER -> "InvalidInstructionData"

---------------------------------------------------------------------------
(* Instructions.  The inputs an instruction names are drawn from the keys  *)
(* and values below; a wallet signs or is only named.                      *)

DefaultRates == [lp |-> 2000, fee |-> 10, cashback |-> 500, swap |-> 30, referral |-> 50]
RateSets ==
    {DefaultRates,
     [lp |-> 5000, fee |-> 1000, cashback |-> 1000, swap |-> 1000, referral |-> 1000],
     [lp |-> 9000, fee |-> 0, cashback |-> 2000, swap |-> 0, referral |-> 0]}
Amounts == {0, 99, 1000000}

(* The runtime: an instruction that returns Ok commits its writes; any     *)
(* other result leaves accounts and balances as they were, and nothing of  *)
(* the instruction remains.                                                *)
Instruction(op, signer, user, to, amount) ==
    [op |-> op, signer |-> signer, user |-> user, to |-> to, amount |-> amount]
After_keeps_writes(r) ==
    IF "accounts" \in DOMAIN r THEN [accounts |-> r.accounts, tok |-> r.tok]
    ELSE [accounts |-> accounts, tok |-> tok]
After(r) ==
    IF r.err = "Ok" THEN [accounts |-> r.accounts, tok |-> r.tok]
    ELSE [accounts |-> accounts, tok |-> tok]
Commit(limit, instruction, r) ==
    /\ ops < limit
    /\ accounts' = After(r).accounts
    /\ tok' = After(r).tok
    /\ IF r.err = "Ok"
       THEN /\ ops' = ops + 1
            /\ last' = instruction
       ELSE UNCHANGED <<ops, last>>
    /\ UNCHANGED <<now, overflow_checks>>

(* An instruction is well formed or departs from that in one respect: its  *)
(* wallet does not sign, it names another account where a derived address  *)
(* or the mint is expected, or the invoked program refuses.                *)
Flaws == {"none", "unsigned", "state key", "ledger key", "mint", "source", "cpi"}
Other(user) == IF user = "alice" THEN "bob" ELSE "alice"
Yot(user) == user \o "_yot"
Yos(user) == user \o "_yos"
StateKey(flaw) ==
    IF flaw = "state key" THEN find_liquidity_contribution_address("alice")
    ELSE find_program_state_address
LedgerKey(user, flaw) ==
    find_liquidity_contribution_address(IF flaw = "ledger key" THEN Other(user) ELSE user)
YosMint(flaw) == IF flaw = "mint" THEN YOT_MINT ELSE YOS_MINT

Initialize ==
    \E payer \in {"admin", "bob"}, rates \in RateSets,
       flaw \in {"none", "unsigned", "state key", "cpi"} :
        /\ Commit(MaxOps, Instruction("Initialize", payer, payer, "", 0),
                  process_initialize(flaw # "unsigned", StateKey(flaw),
                                     find_program_authority_address,
                                     payer, YOT_MINT, YOS_MINT, rates, flaw # "cpi"))
        /\ UNCHANGED claimed

CloseProgram ==
    \E admin_account \in {"admin", "bob"}, flaw \in {"none", "unsigned", "state key"} :
        /\ Commit(MaxOps, Instruction("CloseProgram", admin_account, admin_account, "", 0),
                  process_close_program(admin_account, flaw # "unsigned", StateKey(flaw)))
        /\ UNCHANGED claimed

UpdateParameters ==
    \E admin_account \in {"admin", "bob"}, rates \in RateSets,
       flaw \in {"none", "unsigned", "state key"} :
        /\ Commit(MaxOps,
                  Instruction("UpdateParameters", admin_account, admin_account, "", 0),
                  process_update_parameters(admin_account, flaw # "unsigned",
                                            StateKey(flaw), rates))
        /\ UNCHANGED claimed

BuyAndDistribute ==
    \E user \in Users, amount \in Amounts, flaw \in Flaws :
        /\ Commit(MaxOps, Instruction("BuyAndDistribute", user, user, Yot(user), amount),
                  process_buy_and_distribute(user, flaw # "unsigned",
                                             IF flaw = "source" THEN "vault_yot"
                                             ELSE Yot(user),
                                             Yot(user), "liquidity_yot", YosMint(flaw),
                                             Yos(user), LedgerKey(user, flaw),
                                             StateKey(flaw), amount, flaw # "cpi"))
        /\ UNCHANGED claimed

ClaimWeeklyReward ==
    \E caller \in Users, user_key \in Users, user_yos \in {Yos(u) : u \in Users},
       flaw \in Flaws \ {"state key", "source"} :
        LET liq_key == LedgerKey(user_key, flaw)
            r == process_claim_weekly_reward(flaw # "unsigned", user_key, liq_key,
                                             YosMint(flaw), user_yos, flaw # "cpi")
        IN  /\ Commit(MaxOps,
                      Instruction("ClaimWeeklyReward", caller, user_key, user_yos, 0), r)
            /\ claimed' = IF r.err = "Ok"
                          THEN [claimed EXCEPT ![liq_key] = Append(@, now)]
                          ELSE claimed

WithdrawContribution ==
    \E user \in Users, user_yot \in {Yot(u) : u \in Users},
       flaw \in Flaws \ {"state key", "mint", "source"} :
        /\ Commit(MaxOps, Instruction("WithdrawContribution", user, user, user_yot, 0),
                  process_withdraw_contribution(user, flaw # "unsigned",
                                                LedgerKey(user, flaw), "liquidity_yot",
                                                user_yot, flaw # "cpi"))
        /\ UNCHANGED claimed

(* The clock moves forward to a whole number of cooldown periods from the  *)
(* start, or to the second before.                                         *)
Clock ==
    {StartTime + w * COOLDOWN_SECONDS + e : w \in 1 .. MaxWeeks, e \in {-1, 0}}
Tick ==
    \E t \in Clock :
        /\ t > now
        /\ now' = t
        /\ UNCHANGED <<accounts, tok, overflow_checks, last, ops, claimed>>

NoInstruction == Instruction("none", DefaultPubkey, DefaultPubkey, "", 0)

InitTokens ==
    [t \in TokenAccounts |->
        IF t \in {"alice_yot", "bob_yot", "vault_yot"} THEN InitialYot ELSE 0]

Init ==
    /\ accounts = [k \in SwapAccountKeys |-> EmptyData]
    /\ tok = InitTokens
    /\ now = StartTime
    /\ overflow_checks \in BOOLEAN
    /\ last = NoInstruction
    /\ ops = 0
    /\ claimed = [k \in LedgerKeys |-> <<>>]

Next ==
    \/ Initialize
    \/ CloseProgram
    \/ UpdateParameters
    \/ BuyAndDistribute
    \/ ClaimWeeklyReward
    \/ WithdrawContribution
    \/ Tick

Spec == Init /\ [][Next]_vars

---------------------------------------------------------------------------
(* program/src/manual_serialization.rs: BuyAndDistribute and ClaimRewards. *)
(* The ledger has the layout and the address of the one above.             *)

(* lines 299-302: three percentages of the amount, each rounded down.      *)
manual_distribution(amount) ==
    [user_portion |-> wrapping_mul(amount, 75) \div 100,
     liquidity_portion |-> wrapping_mul(amount, 20) \div 100,
     yos_cashback |-> wrapping_mul(amount, 5) \div 100,
     overflow |-> mul_overflows(amount, 75)]

manual_process_buy_and_distribute(user, user_signs, vault_yot, user_yot, yos_mint, user_yos, liq_key, amount, cpi_ok) ==
    LET d == manual_distribution(amount)
        old == IF data_is_empty(accounts[liq_key])
               THEN LiquidityContribution(user, 0, now, now, 0) ELSE accounts[liq_key]
        t1 == transfer(tok, user_yot, vault_yot, amount)
    IN  IF ~user_signs THEN Err("MissingRequiredSignature", "user")
        ELSE IF d.overflow /\ overflow_checks THEN Panic
        ELSE IF find_liquidity_contribution_address(user) # liq_key
        THEN Err("InvalidAccountData", "ledger address")
        ELSE IF data_is_empty(accounts[liq_key]) /\ ~cpi_ok
        THEN Err("Custom", "create_account")
        ELSE IF ~transfer_ok(tok, user_yot, vault_yot, user, amount, cpi_ok)
        THEN Err("Custom", "token program")
        ELSE IF add_overflows(old.contributed_amount, d.liquidity_portion)
                /\ overflow_checks
        THEN Panic
        ELSE IF ~mint_to_ok(t1, yos_mint, user_yos, find_program_authority_address,
                            d.yos_cashback, cpi_ok)
        THEN Err("Custom", "token program")
        ELSE Ok(Write(liq_key,
                      [old EXCEPT !.contributed_amount =
                                      wrapping_add(@, d.liquidity_portion)]),
                mint_to(t1, user_yos, d.yos_cashback))

process_claim_rewards(caller_signs, user, liq_key, yos_mint, user_yos, cpi_ok) ==
    IF ~caller_signs THEN Err("MissingRequiredSignature", "caller")
    ELSE IF find_liquidity_contribution_address(user) # liq_key
    THEN Err("InvalidAccountData", "ledger address")
    ELSE IF ~try_from_slice("LiquidityContribution", accounts[liq_key])
    THEN Err("InvalidAccountData", "ledger")
    ELSE
    LET contribution_data == accounts[liq_key]
        reward_amount == wrapping_mul(contribution_data.contributed_amount, 2) \div 100
    IN  IF contribution_data.user # user
        THEN Err("InvalidAccountData", "ledger user")
        ELSE IF contribution_data.contributed_amount = 0
        THEN Err("InsufficientFunds", "NothingToClaim")
        ELSE IF now - contribution_data.last_claim_time < 604800
        THEN Err("InvalidArgument", "TooEarly")
        ELSE IF mul_overflows(contribution_data.contributed_amount, 2) /\ overflow_checks
        THEN Panic
        ELSE IF ~mint_to_ok(tok, yos_mint, user_yos, find_program_authority_address,
                            reward_amount, cpi_ok)
        THEN Err("Custom", "token program")
        ELSE IF add_overflows(contribution_data.total_claimed_yos, reward_amount)
                /\ overflow_checks
        THEN Panic
        ELSE Ok(Write(liq_key,
                      [contribution_data EXCEPT
                          !.last_claim_time = now,
                          !.total_claimed_yos = wrapping_add(@, reward_amount)]),
                mint_to(tok, user_yos, reward_amount))

ManualBuyAndDistribute ==
    \E user \in Users, amount \in Amounts, flaw \in Flaws \ {"state key", "source"} :
        /\ Commit(MaxOps, Instruction("BuyAndDistribute", user, user, Yot(user), amount),
                  manual_process_buy_and_distribute(user, flaw # "unsigned", "vault_yot",
                                                    Yot(user), YosMint(flaw), Yos(user),
                                                    LedgerKey(user, flaw), amount,
                                                    flaw # "cpi"))
        /\ UNCHANGED claimed

ManualClaimRewards ==
    \E caller \in Users, user \in Users, user_yos \in {Yos(u) : u \in Users},
       flaw \in Flaws \ {"state key", "source"} :
        LET liq_key == LedgerKey(user, flaw)
            r == process_claim_rewards(flaw # "unsigned", user, liq_key, YosMint(flaw),
                                       user_yos, flaw # "cpi")
        IN  /\ Commit(MaxOps, Instruction("ClaimRewards", caller, user, user_yos, 0), r)
            /\ claimed' = IF r.err = "Ok"
                          THEN [claimed EXCEPT ![liq_key] = Append(@, now)]
                          ELSE claimed

(* lines 419-422: Contribute is accepted and does nothing.                 *)
manual_process_contribute(user, amount) == Ok(accounts, tok)

ManualContribute ==
    \E user \in Users, amount \in Amounts :
        /\ Commit(MaxOps, Instruction("Contribute", user, user, Yot(user), amount),
                  manual_process_contribute(user, amount))
        /\ UNCHANGED claimed

(* lines 508-511: WithdrawLiquidity is accepted and does nothing.          *)
manual_process_withdraw_liquidity(user) == Ok(accounts, tok)

ManualWithdrawLiquidity ==
    \E user \in Users :
        /\ Commit(MaxOps, Instruction("WithdrawLiquidity", user, user, Yot(user), 0),
                  manual_process_withdraw_liquidity(user))
        /\ UNCHANGED claimed

NextManual ==
    \/ ManualBuyAndDistribute
    \/ ManualClaimRewards
    \/ ManualContribute
    \/ ManualWithdrawLiquidity
    \/ Tick

SpecManual == Init /\ [][NextManual]_vars

---------------------------------------------------------------------------
(* archive/multi_hub_swap.rs: BuyAndDistribute, ClaimWeeklyReward and      *)
(* WithdrawContribution.  The file dispatches Initialize to a handler it   *)
(* does not define; the program state it would store is what the           *)
(* instruction names (lines 203-263).                                      *)

TOKEN_PROGRAM_ID == "spl_token"                 \* the owner of every token account
archive_find_liquidity_contribution_address(user) == "pda:liquidity:" \o user
ArchiveLedgerKeys == {archive_find_liquidity_contribution_address(u) : u \in Users}

archive_process_buy_and_distribute(user, user_signs, vault_yot, user_yot, liquidity_yot, yos_mint, user_yos, liq_key, state_key, amount, cpi_ok) ==
    IF ~user_signs THEN Err("MissingRequiredSignature", "user")
    ELSE IF ~try_from_slice("ProgramState", accounts[state_key])
    THEN Err("BorshIoError", "program state")
    ELSE IF accounts[state_key].yot_mint # TOKEN_PROGRAM_ID      \* *vault_yot.owner
    THEN Err("InvalidAccountData", "YOT mint")
    ELSE IF accounts[state_key].yos_mint # yos_mint
    THEN Err("InvalidAccountData", "YOS mint")
    ELSE IF TokenOwner(user_yot) # user \/ TokenOwner(user_yos) # user
    THEN Err("InvalidAccountData", "token account owner")
    ELSE
    LET user_amount == wrapping_mul(amount, 75) \div 100
        liquidity_amount == wrapping_mul(amount, 20) \div 100
        cashback_amount == wrapping_mul(amount, 5) \div 100
        create_new_account == data_is_empty(accounts[liq_key])
        contribution == IF create_new_account
                        THEN LiquidityContribution(user, 0, now, now, 0)
                        ELSE accounts[liq_key]
        t1 == transfer(tok, vault_yot, user_yot, user_amount)
        t2 == transfer(t1, vault_yot, liquidity_yot, liquidity_amount)
    IN  IF mul_overflows(amount, 75) /\ overflow_checks THEN Panic
        ELSE IF create_new_account
                /\ archive_find_liquidity_contribution_address(user) # liq_key
        THEN Err("InvalidAccountData", "ledger address")
        ELSE IF create_new_account /\ ~cpi_ok
        THEN Err("Custom", "create_account")
        ELSE IF ~try_from_slice("LiquidityContribution", contribution)
        THEN Err("BorshIoError", "ledger")
        ELSE IF contribution.user # user
        THEN Err("InvalidAccountData", "ledger user")
        ELSE IF \/ ~transfer_ok(tok, vault_yot, user_yot,
                                find_program_authority_address, user_amount, cpi_ok)
                \/ ~transfer_ok(t1, vault_yot, liquidity_yot,
                                find_program_authority_address, liquidity_amount, cpi_ok)
                \/ ~mint_to_ok(t2, yos_mint, user_yos, find_program_authority_address,
                               cashback_amount, cpi_ok)
        THEN Err("Custom", "token program")
        ELSE IF add_overflows(contribution.contributed_amount, liquidity_amount)
                /\ overflow_checks
        THEN Panic
        ELSE Ok(Write(liq_key,
                      [contribution EXCEPT !.contributed_amount =
                                               wrapping_add(@, liquidity_amount)]),
                mint_to(t2, user_yos, cashback_amount))

archive_process_claim_weekly_reward(caller_signs, user_key, liq_key, yos_mint, user_yos, cpi_ok) ==
    IF ~caller_signs THEN Err("MissingRequiredSignature", "caller")
    ELSE IF archive_find_liquidity_contribution_address(user_key) # liq_key
    THEN Err("InvalidAccountData", "ledger address")
    ELSE IF ~try_from_slice("LiquidityContribution", accounts[liq_key])
    THEN Err("BorshIoError", "ledger")
    ELSE
    LET contribution == accounts[liq_key]
        reward == weekly_reward(contribution.contributed_amount)
    IN  IF contribution.user # user_key
        THEN Err("InvalidAccountData", "ledger user")
        ELSE IF contribution.contributed_amount = 0
        THEN Err("InvalidAccountData", "NothingToClaim")
        ELSE IF now - contribution.last_claim_time < 604800
        THEN Err("InvalidInstructionData", "TooEarly")
        ELSE IF reward.overflow /\ overflow_checks THEN Panic
        ELSE IF ~mint_to_ok(tok, yos_mint, user_yos, find_program_authority_address,
                            reward.value, cpi_ok)
        THEN Err("Custom", "token program")
        ELSE IF add_overflows(contribution.total_claimed_yos, reward.value)
                /\ overflow_checks
        THEN Panic
        ELSE Ok(Write(liq_key,
                      [contribution EXCEPT
                          !.last_claim_time = now,
                          !.total_claimed_yos = wrapping_add(@, reward.value)]),
                mint_to(tok, user_yos, reward.value))

archive_process_withdraw_contribution(user, user_signs, liq_key, liquidity_yot, user_yot, cpi_ok) ==
    IF ~user_signs THEN Err("MissingRequiredSignature", "user")
    ELSE IF archive_find_liquidity_contribution_address(user) # liq_key
    THEN Err("InvalidAccountData", "ledger address")
    ELSE IF ~try_from_slice("LiquidityContribution", accounts[liq_key])
    THEN Err("InvalidAccountData", "ledger")
    ELSE
    LET contribution == accounts[liq_key]
    IN  IF contribution.user # user
        THEN Err("InvalidAccountData", "ledger user")
        ELSE IF contribution.contributed_amount = 0
        THEN Err("InvalidAccountData", "NothingToWithdraw")
        ELSE IF ~transfer_ok(tok, liquidity_yot, user_yot, find_program_authority_address,
                             contribution.contributed_amount, cpi_ok)
        THEN Err("Custom", "token program")
        ELSE Ok(Write(liq_key,
                      LiquidityContribution(user, 0, 0, 0,
                                            contribution.total_claimed_yos)),
                transfer(tok, liquidity_yot, user_yot, contribution.contributed_amount))

ArchiveLedgerKey(user, flaw) ==
    archive_find_liquidity_contribution_address(
        IF flaw = "ledger key" THEN Other(user) ELSE user)

ArchiveBuyAndDistribute ==
    \E user \in Users, amount \in Amounts, flaw \in Flaws \ {"source"} :
        /\ Commit(MaxArchiveOps,
                  Instruction("BuyAndDistribute", user, user, Yot(user), amount),
                  archive_process_buy_and_distribute(
                      user, flaw # "unsigned", "vault_yot", Yot(user), "liquidity_yot",
                      YosMint(flaw), Yos(user), ArchiveLedgerKey(user, flaw),
                      IF flaw = "state key"
                      THEN archive_find_liquidity_contribution_address("alice")
                      ELSE find_program_state_address,
                      amount, flaw # "cpi"))
        /\ UNCHANGED claimed

ArchiveClaimWeeklyReward ==
    \E caller \in Users, user_key \in Users, flaw \in Flaws \ {"state key", "source"} :
        LET liq_key == ArchiveLedgerKey(user_key, flaw)
            user_yos == Yos(caller)
            r == archive_process_claim_weekly_reward(flaw # "unsigned", user_key, liq_key,
                                                     YosMint(flaw), user_yos, flaw # "cpi")
        IN  /\ Commit(MaxArchiveOps,
                      Instruction("ClaimWeeklyReward", caller, user_key, user_yos, 0), r)
            /\ claimed' = IF r.err = "Ok"
                          THEN [claimed EXCEPT ![liq_key] = Append(@, now)]
                          ELSE claimed

ArchiveWithdrawContribution ==
    \E user \in Users, flaw \in Flaws \ {"state key", "mint", "source"} :
        /\ Commit(MaxArchiveOps,
                  Instruction("WithdrawContribution", user, user, Yot(user), 0),
                  archive_process_withdraw_contribution(
                      user, flaw # "unsigned", ArchiveLedgerKey(user, flaw),
                      "liquidity_yot", Yot(user), flaw # "cpi"))
        /\ UNCHANGED claimed

InitArchive ==
    /\ \E admin \in {"admin"}, yot_mint \in {YOT_MINT, TOKEN_PROGRAM_ID} :
          accounts = [k \in {find_program_state_address} \cup ArchiveLedgerKeys |->
                         IF k = find_program_state_address
                         THEN ProgramState(admin, yot_mint, YOS_MINT, DefaultRates)
                         ELSE EmptyData]
    /\ tok = InitTokens
    /\ now = StartTime
    /\ overflow_checks \in BOOLEAN
    /\ last = NoInstruction
    /\ ops = 0
    /\ claimed = [k \in ArchiveLedgerKeys |-> <<>>]

NextArchive ==
    \/ ArchiveBuyAndDistribute
    \/ ArchiveClaimWeeklyReward
    \/ ArchiveWithdrawContribution
    \/ Tick

SpecArchive == InitArchive /\ [][NextArchive]_vars

---------------------------------------------------------------------------
(* program/src/multi_hub_swap_token_fix.rs: Initialize, UpdateParameters   *)
(* and BuyAndDistribute.  The rates of this revision are percentages.      *)

token_fix_find_liquidity_contribution_address(user) == "pda:liquidity:" \o user
TokenFixLedgerKeys == {token_fix_find_liquidity_contribution_address(u) : u \in Users}

(* lines 411-474: the account is always created, which the system program  *)
(* refuses for an account that holds data; the rates stored are fixed.     *)
token_fix_process_initialize(admin, admin_signs, state_key, yot_mint, yos_mint, cpi_ok) ==
    IF ~admin_signs THEN Err("MissingRequiredSignature", "admin")
    ELSE IF find_program_state_address # state_key
    THEN Err("InvalidAccountData", "program state address")
    ELSE IF ~data_is_empty(accounts[state_key]) \/ ~cpi_ok
    THEN Err("Custom", "create_account")
    ELSE Ok(Write(state_key,
                  ProgramState(admin, yot_mint, yos_mint,
                               [lp |-> 20, fee |-> 0, cashback |-> 5, swap |-> 1,
                                referral |-> 0])),
            tok)

token_fix_process_update_parameters(admin, admin_signs, state_key, rates) ==
    IF ~admin_signs THEN Err("MissingRequiredSignature", "admin")
    ELSE IF find_program_state_address # state_key
    THEN Err("InvalidAccountData", "program state address")
    ELSE IF ~try_from_slice("ProgramState", accounts[state_key])
    THEN Err("BorshIoError", "program state")
    ELSE IF accounts[state_key].admin # admin
    THEN Err("InvalidAccountData", "admin")
    ELSE IF \/ rates.lp > 100 \/ rates.cashback > 100 \/ rates.fee > 100
            \/ rates.swap > 100 \/ rates.referral > 100
    THEN Err("InvalidInstructionData", "rates")
    ELSE LET s == accounts[state_key]
         IN  Ok(Write(state_key, ProgramState(s.admin, s.yot_mint, s.yos_mint, rates)),
                tok)

(* lines 498-713: the amounts are fixed shares of the amount (584-591);    *)
(* the whole amount goes from the user to the vault.                       *)
token_fix_process_buy_and_distribute(user, user_signs, vault_yot, user_yot, yos_mint, user_yos, liq_key, state_key, amount, cpi_ok) ==
    IF ~user_signs THEN Err("MissingRequiredSignature", "user")
    ELSE IF ~try_from_slice("ProgramState", accounts[state_key])
    THEN Err("BorshIoError", "program state")
    ELSE IF accounts[state_key].yot_mint # TOKEN_PROGRAM_ID      \* *vault_yot.owner
    THEN Err("InvalidAccountData", "YOT mint")
    ELSE IF accounts[state_key].yos_mint # yos_mint
    THEN Err("InvalidAccountData", "YOS mint")
    ELSE IF TokenOwner(user_yot) # user \/ TokenOwner(user_yos) # user
    THEN Err("InvalidAccountData", "token account owner")
    ELSE
    LET liquidity_amount == wrapping_mul(amount, 20) \div 100
        cashback_amount == wrapping_mul(amount, 5) \div 100
        create_new_account == data_is_empty(accounts[liq_key])
        contribution == IF create_new_account
                        THEN LiquidityContribution(user, 0, now, now, 0)
                        ELSE accounts[liq_key]
        t1 == transfer(tok, user_yot, vault_yot, amount)
    IN  IF mul_overflows(amount, 75) /\ overflow_checks THEN Panic
        ELSE IF create_new_account
                /\ token_fix_find_liquidity_contribution_address(user) # liq_key
        THEN Err("InvalidAccountData", "ledger address")
        ELSE IF create_new_account /\ ~cpi_ok
        THEN Err("Custom", "create_account")
        ELSE IF ~try_from_slice("LiquidityContribution", contribution)
        THEN Err("BorshIoError", "ledger")
        ELSE IF contribution.user # user
        THEN Err("InvalidAccountData", "ledger user")
        ELSE IF \/ ~transfer_ok(tok, user_yot, vault_yot, user, amount, cpi_ok)
                \/ ~mint_to_ok(t1, yos_mint, user_yos, find_program_authority_address,
                               cashback_amount, cpi_ok)
        THEN Err("Custom", "token program")
        ELSE IF add_overflows(contribution.contributed_amount, liquidity_amount)
                /\ overflow_checks
        THEN Panic
        ELSE Ok(Write(liq_key,
                      [contribution EXCEPT !.contributed_amount =
                                               wrapping_add(@, liquidity_amount)]),
                mint_to(t1, user_yos, cashback_amount))

(* The rates an UpdateParameters names: the ones Initialize stores, other  *)
(* percentages, and a rate above 100.                                      *)
TokenFixRateSets ==
    {[lp |-> 20, fee |-> 0, cashback |-> 5, swap |-> 1, referral |-> 0],
     [lp |-> 50, fee |-> 1, cashback |-> 10, swap |-> 1, referral |-> 0],
     [lp |-> 101, fee |-> 0, cashback |-> 5, swap |-> 1, referral |-> 0]}

TokenFixInitialize ==
    \E admin \in {"admin", "bob"}, yot_mint \in {YOT_MINT, TOKEN_PROGRAM_ID},
       flaw \in {"none", "unsigned", "state key", "cpi"} :
        /\ Commit(MaxOps, Instruction("Initialize", admin, admin, "", 0),
                  token_fix_process_initialize(
                      admin, flaw # "unsigned",
                      IF flaw = "state key"
                      THEN token_fix_find_liquidity_contribution_address("alice")
                      ELSE find_program_state_address,
                      yot_mint, YOS_MINT, flaw # "cpi"))
        /\ UNCHANGED claimed

TokenFixUpdateParameters ==
    \E admin \in {"admin", "bob"}, rates \in TokenFixRateSets,
       flaw \in {"none", "unsigned", "state key"} :
        /\ Commit(MaxOps, Instruction("UpdateParameters", admin, admin, "", 0),
                  token_fix_process_update_parameters(
                      admin, flaw # "unsigned",
                      IF flaw = "state key"
                      THEN token_fix_find_liquidity_contribution_address("alice")
                      ELSE find_program_state_address,
                      rates))
        /\ UNCHANGED claimed

TokenFixBuyAndDistribute ==
    \E user \in Users, amount \in Amounts, flaw \in Flaws \ {"source"} :
        /\ Commit(MaxOps, Instruction("BuyAndDistribute", user, user, Yot(user), amount),
                  token_fix_process_buy_and_distribute(
                      user, flaw # "unsigned", "vault_yot", Yot(user), YosMint(flaw),
                      Yos(user),
                      token_fix_find_liquidity_contribution_address(
                          IF flaw = "ledger key" THEN Other(user) ELSE user),
                      IF flaw = "state key"
                      THEN token_fix_find_liquidity_contribution_address("alice")
                      ELSE find_program_state_address,
                      amount, flaw # "cpi"))
        /\ UNCHANGED claimed

InitTokenFix ==
    /\ accounts = [k \in {find_program_state_address} \cup TokenFixLedgerKeys |-> EmptyData]
    /\ tok = InitTokens
    /\ now = StartTime
    /\ overflow_checks \in BOOLEAN
    /\ last = NoInstruction
    /\ ops = 0
    /\ claimed = [k \in TokenFixLedgerKeys |-> <<>>]

NextTokenFix ==
    \/ TokenFixInitialize
    \/ TokenFixUpdateParameters
    \/ TokenFixBuyAndDistribute
    \/ Tick

SpecTokenFix == InitTokenFix /\ [][NextTokenFix]_vars

---------------------------------------------------------------------------
(* program/src/multi_hub_swap_complete.rs: the records and their byte      *)
(* layout.  Account data is a sequence of bytes; a Pubkey is 32 bytes.     *)

Pubkeys == {DefaultPubkey, "admin", "alice", "bob", YOT_MINT, YOS_MINT, "wallet"}
KeyByte(key) ==
    CASE key = DefaultPubkey -> 0
      [] key = "admin" -> 1
      [] key = "alice" -> 2
      [] key = "bob" -> 3
      [] key = YOT_MINT -> 4
      [] key = YOS_MINT -> 5
      [] OTHER -> 6
as_ref(key) == [i \in 1 .. 32 |-> IF i % 2 = 1 THEN KeyByte(key) ELSE 255 - KeyByte(key)]
new_from_array(bytes) == CHOOSE key \in Pubkeys : as_ref(key) = bytes

RECURSIVE le_bytes(_, _)
le_bytes(v, n) == IF n = 0 THEN <<>> ELSE <<v % 256>> \o le_bytes(v \div 256, n - 1)
to_le_bytes(v) == le_bytes(v, 8)
RECURSIVE from_le_bytes(_)
from_le_bytes(bytes) ==
    IF bytes = <<>> THEN 0 ELSE Head(bytes) + 256 * from_le_bytes(Tail(bytes))

(* array_ref![data, offset, len]                                           *)
array_ref(data, offset, len) == SubSeq(data, offset + 1, offset + len)
zeroed(len) == [i \in 1 .. len |-> 0]

PROGRAM_STATE_LEN == 176
OLD_PROGRAM_STATE_LEN == 136
LIQUIDITY_CONTRIBUTION_LEN == 64
DEFAULT_LIQUIDITY_THRESHOLD == 100000000

CompleteProgramState(admin, yot_mint, yos_mint, rates, liquidity_wallet, liquidity_threshold) ==
    [admin |-> admin, yot_mint |-> yot_mint, yos_mint |-> yos_mint,
     lp_contribution_rate |-> rates.lp, admin_fee_rate |-> rates.fee,
     yos_cashback_rate |-> rates.cashback, swap_fee_rate |-> rates.swap,
     referral_rate |-> rates.referral,
     liquidity_wallet |-> liquidity_wallet, liquidity_threshold |-> liquidity_threshold]

Unpacked(value) == [err |-> "Ok", value |-> value]
Packed(data) == [err |-> "Ok", data |-> data]

(* lines 37-105.  A buffer shorter than LEN and not shorter than the old   *)
(* layout is read as the old layout, with defaults for the two new fields. *)
unpack_old_rates(data) ==
    [lp |-> from_le_bytes(array_ref(data, 96, 8)),
     fee |-> from_le_bytes(array_ref(data, 104, 8)),
     cashback |-> from_le_bytes(array_ref(data, 112, 8)),
     swap |-> from_le_bytes(array_ref(data, 120, 8)),
     referral |-> from_le_bytes(array_ref(data, 128, 8))]
ProgramState_unpack_strict(data) ==
    IF Len(data) < PROGRAM_STATE_LEN
    THEN Err("InvalidAccountData", "program state too short")
    ELSE Unpacked(CompleteProgramState(
                      new_from_array(array_ref(data, 0, 32)),
                      new_from_array(array_ref(data, 32, 32)),
                      new_from_array(array_ref(data, 64, 32)),
                      unpack_old_rates(data),
                      new_from_array(array_ref(data, 136, 32)),
                      from_le_bytes(array_ref(data, 168, 8))))
ProgramState_unpack(data) ==
    IF Len(data) < PROGRAM_STATE_LEN
    THEN IF Len(data) < OLD_PROGRAM_STATE_LEN
         THEN Err("InvalidAccountData", "program state too short")
         ELSE Unpacked(CompleteProgramState(
                           new_from_array(array_ref(data, 0, 32)),
                           new_from_array(array_ref(data, 32, 32)),
                           new_from_array(array_ref(data, 64, 32)),
                           unpack_old_rates(data),
                           DefaultPubkey, DEFAULT_LIQUIDITY_THRESHOLD))
    ELSE Unpacked(CompleteProgramState(
                      new_from_array(array_ref(data, 0, 32)),
                      new_from_array(array_ref(data, 32, 32)),
                      new_from_array(array_ref(data, 64, 32)),
                      unpack_old_rates(data),
                      new_from_array(array_ref(data, 136, 32)),
                      from_le_bytes(array_ref(data, 168, 8))))

(* lines 108-141.  The bytes of dst after LEN are left as they are.        *)
ProgramState_pack_unchecked(state, dst) ==
    Packed(as_ref(state.admin) \o as_ref(state.yot_mint) \o as_ref(state.yos_mint)
           \o to_le_bytes(state.lp_contribution_rate)
           \o to_le_bytes(state.admin_fee_rate)
           \o to_le_bytes(state.yos_cashback_rate)
           \o to_le_bytes(state.swap_fee_rate)
           \o to_le_bytes(state.referral_rate)
           \o as_ref(state.liquidity_wallet)
           \o to_le_bytes(state.liquidity_threshold))
ProgramState_pack(state, dst) ==
    IF Len(dst) < PROGRAM_STATE_LEN
    THEN Err("InvalidAccountData", "destination too small")
    ELSE Packed(as_ref(state.admin) \o as_ref(state.yot_mint) \o as_ref(state.yos_mint)
                \o to_le_bytes(state.lp_contribution_rate)
                \o to_le_bytes(state.admin_fee_rate)
                \o to_le_bytes(state.yos_cashback_rate)
                \o to_le_bytes(state.swap_fee_rate)
                \o to_le_bytes(state.referral_rate)
                \o as_ref(state.liquidity_wallet)
                \o to_le_bytes(state.liquidity_threshold)
                \o SubSeq(dst, PROGRAM_STATE_LEN + 1, Len(dst)))

(* lines 153-177 *)
LiquidityContribution_unpack_swapped(data) ==
    IF Len(data) < LIQUIDITY_CONTRIBUTION_LEN
    THEN Err("InvalidAccountData", "liquidity contribution too short")
    ELSE Unpacked(LiquidityContribution(
                      new_from_array(array_ref(data, 0, 32)),
                      from_le_bytes(array_ref(data, 32, 8)),
                      from_le_bytes(array_ref(data, 48, 8)),
                      from_le_bytes(array_ref(data, 40, 8)),
                      from_le_bytes(array_ref(data, 56, 8))))
LiquidityContribution_unpack(data) ==
    IF Len(data) < LIQUIDITY_CONTRIBUTION_LEN
    THEN Err("InvalidAccountData", "liquidity contribution too short")
    ELSE Unpacked(LiquidityContribution(
                      new_from_array(array_ref(data, 0, 32)),
                      from_le_bytes(array_ref(data, 32, 8)),
                      from_le_bytes(array_ref(data, 40, 8)),
                      from_le_bytes(array_ref(data, 48, 8)),
                      from_le_bytes(array_ref(data, 56, 8))))

(* lines 180-204 *)
LiquidityContribution_pack(contribution, dst) ==
    IF Len(dst) < LIQUIDITY_CONTRIBUTION_LEN
    THEN Err("InvalidAccountData", "destination too small")
    ELSE Packed(as_ref(contribution.user)
                \o to_le_bytes(contribution.contributed_amount)
                \o to_le_bytes(contribution.start_timestamp)
                \o to_le_bytes(contribution.last_claim_time)
                \o to_le_bytes(contribution.total_claimed_yos)
                \o SubSeq(dst, LIQUIDITY_CONTRIBUTION_LEN + 1, Len(dst)))

(* manual_serialization.rs, lines 31-49: the layout of the revision before *)
(* liquidity_wallet and liquidity_threshold were added.                    *)
ProgramState_serialize(state, dst) ==
    IF Len(dst) < OLD_PROGRAM_STATE_LEN
    THEN Err("AccountDataTooSmall", "destination too small")
    ELSE Packed(as_ref(state.admin) \o as_ref(state.yot_mint) \o as_ref(state.yos_mint)
                \o to_le_bytes(state.lp_contribution_rate)
                \o to_le_bytes(state.admin_fee_rate)
                \o to_le_bytes(state.yos_cashback_rate)
                \o to_le_bytes(state.swap_fee_rate)
                \o to_le_bytes(state.referral_rate)
                \o SubSeq(dst, OLD_PROGRAM_STATE_LEN + 1, Len(dst)))

(* The rates Initialize stores, in percent (lines 401-405).                *)
PercentRates == [lp |-> 20, fee |-> 0, cashback |-> 5, swap |-> 1, referral |-> 0]

(* lines 351-418 *)
complete_process_initialize(admin, admin_signs, state_key, liquidity_wallet, yot_mint, yos_mint, cpi_ok) ==
    IF ~admin_signs THEN Err("MissingRequiredSignature", "admin")
    ELSE IF find_program_state_address # state_key
    THEN Err("InvalidAccountData", "program state address")
    ELSE IF accounts[state_key] # <<>> \/ ~cpi_ok
    THEN Err("Custom", "create_account")
    ELSE
    LET program_state == CompleteProgramState(admin, yot_mint, yos_mint, PercentRates,
                                              liquidity_wallet,
                                              DEFAULT_LIQUIDITY_THRESHOLD)
        packed == ProgramState_pack(program_state, zeroed(PROGRAM_STATE_LEN))
    IN  IF packed.err # "Ok" THEN packed
        ELSE Ok(Write(state_key, packed.data), tok)

(* lines 1085-1155 *)
complete_process_update_parameters_old_layout(admin, admin_signs, state_key, rates) ==
    LET unpacked == ProgramState_unpack(accounts[state_key])
        state == [unpacked.value EXCEPT !.lp_contribution_rate = rates.lp,
                                        !.yos_cashback_rate = rates.cashback,
                                        !.admin_fee_rate = rates.fee,
                                        !.swap_fee_rate = rates.swap,
                                        !.referral_rate = rates.referral]
    IN  IF ~admin_signs THEN Err("MissingRequiredSignature", "admin")
        ELSE IF find_program_state_address # state_key
        THEN Err("InvalidAccountData", "program state address")
        ELSE IF unpacked.err # "Ok" THEN unpacked
        ELSE IF unpacked.value.admin # admin THEN Err("InvalidArgument", "admin")
        ELSE IF rates.lp + rates.cashback + rates.fee > 100
        THEN Err("InvalidArgument", "total")
        ELSE IF Len(accounts[state_key]) < PROGRAM_STATE_LEN
        THEN Ok(Write(state_key, ProgramState_serialize(state, accounts[state_key]).data),
                tok)
        ELSE Ok(Write(state_key, ProgramState_pack(state, accounts[state_key]).data), tok)
complete_process_update_parameters(admin, admin_signs, state_key, rates) ==
    IF ~admin_signs THEN Err("MissingRequiredSignature", "admin")
    ELSE IF find_program_state_address # state_key
    THEN Err("InvalidAccountData", "program state address")
    ELSE
    LET unpacked == ProgramState_unpack(accounts[state_key])
    IN  IF unpacked.err # "Ok" THEN unpacked
        ELSE IF unpacked.value.admin # admin
        THEN Err("InvalidArgument", "admin")
        ELSE IF \/ rates.lp > 100 \/ rates.cashback > 100 \/ rates.fee > 100
                \/ rates.swap > 100 \/ rates.referral > 100
        THEN Err("InvalidArgument", "rate")
        ELSE IF rates.lp + rates.cashback + rates.fee > 100
        THEN Err("InvalidArgument", "total")
        ELSE
        LET state == [unpacked.value EXCEPT !.lp_contribution_rate = rates.lp,
                                            !.yos_cashback_rate = rates.cashback,
                                            !.admin_fee_rate = rates.fee,
                                            !.swap_fee_rate = rates.swap,
                                            !.referral_rate = rates.referral]
            packed == ProgramState_pack(state, accounts[state_key])
        IN  IF packed.err # "Ok" THEN packed
            ELSE Ok(Write(state_key, packed.data), tok)

(* lines 991-1083.  The sum of line 1077 is not checked: it panics in a    *)
(* build with overflow checks and wraps in one without.                    *)
complete_process_contribute(user, user_signs, user_token, liquidity_token, liq_key, amount, cpi_ok) ==
    IF ~user_signs THEN Err("MissingRequiredSignature", "user")
    ELSE IF find_liquidity_contribution_address(user) # liq_key
    THEN Err("InvalidAccountData", "ledger address")
    ELSE IF accounts[liq_key] = <<>> /\ ~cpi_ok
    THEN Err("Custom", "create_account")
    ELSE
    LET created == IF accounts[liq_key] = <<>>
                   THEN LiquidityContribution_pack(
                            LiquidityContribution(user, 0, now, now, 0),
                            zeroed(LIQUIDITY_CONTRIBUTION_LEN))
                   ELSE Packed(accounts[liq_key])
        unpacked == LiquidityContribution_unpack(created.data)
    IN  IF created.err # "Ok" THEN created
        ELSE IF unpacked.err # "Ok" THEN unpacked
        ELSE IF unpacked.value.user # user
        THEN Err("InvalidAccountData", "ledger user")
        ELSE IF ~transfer_ok(tok, user_token, liquidity_token, user, amount, cpi_ok)
        THEN Err("Custom", "token program")
        ELSE IF add_overflows(unpacked.value.contributed_amount, amount)
                /\ overflow_checks
        THEN Panic
        ELSE
        LET contribution == [unpacked.value EXCEPT !.contributed_amount =
                                                       wrapping_add(@, amount)]
            packed == LiquidityContribution_pack(contribution, created.data)
        IN  IF packed.err # "Ok" THEN packed
            ELSE Ok(Write(liq_key, packed.data),
                    transfer(tok, user_token, liquidity_token, amount))

(* lines 654-727 *)
process_withdraw_liquidity(user, user_signs, liq_key, vault_yot, user_yot, cpi_ok) ==
    IF ~user_signs THEN Err("MissingRequiredSignature", "user")
    ELSE IF find_liquidity_contribution_address(user) # liq_key
    THEN Err("InvalidAccountData", "ledger address")
    ELSE
    LET unpacked == LiquidityContribution_unpack(accounts[liq_key])
    IN  IF unpacked.err # "Ok" THEN unpacked
        ELSE IF unpacked.value.user # user
        THEN Err("InvalidAccountData", "ledger user")
        ELSE IF unpacked.value.contributed_amount = 0
        THEN Err("InsufficientFunds", "NothingToWithdraw")
        ELSE IF ~transfer_ok(tok, vault_yot, user_yot, find_program_authority_address,
                             unpacked.value.contributed_amount, cpi_ok)
        THEN Err("Custom", "token program")
        ELSE
        LET packed == LiquidityContribution_pack(
                          [unpacked.value EXCEPT !.contributed_amount = 0],
                          accounts[liq_key])
        IN  IF packed.err # "Ok" THEN packed
            ELSE Ok(Write(liq_key, packed.data),
                    transfer(tok, vault_yot, user_yot,
                             unpacked.value.contributed_amount))

(* The amounts a Contribute names; two of the largest overflow a u64.      *)
ContributeAmounts == {0, 1000000, U64_MAX \div 2 + 1}
PercentRateSets ==
    {PercentRates,
     [lp |-> 50, fee |-> 1, cashback |-> 10, swap |-> 1, referral |-> 0],
     [lp |-> 90, fee |-> 0, cashback |-> 20, swap |-> 0, referral |-> 0]}

CompleteInitialize ==
    \E admin \in {"admin", "bob"}, flaw \in {"none", "unsigned", "state key", "cpi"} :
        /\ Commit(MaxCompleteOps, Instruction("Initialize", admin, admin, "", 0),
                  complete_process_initialize(admin, flaw # "unsigned", StateKey(flaw),
                                              "wallet", YOT_MINT, YOS_MINT,
                                              flaw # "cpi"))
        /\ UNCHANGED claimed

CompleteUpdateParameters ==
    \E admin \in {"admin", "bob"}, rates \in PercentRateSets,
       flaw \in {"none", "unsigned", "state key"} :
        /\ Commit(MaxCompleteOps, Instruction("UpdateParameters", admin, admin, "", 0),
                  complete_process_update_parameters(admin, flaw # "unsigned",
                                                     StateKey(flaw), rates))
        /\ UNCHANGED claimed

CompleteContribute ==
    \E user \in Users, amount \in ContributeAmounts, own \in BOOLEAN,
       flaw \in {"none", "unsigned", "ledger key", "cpi"} :
      LET liquidity_token == IF own THEN Yot(user) ELSE "liquidity_yot" IN
        /\ Commit(MaxCompleteOps, Instruction("Contribute", user, user, liquidity_token, amount),
                  complete_process_contribute(user, flaw # "unsigned", Yot(user),
                                              liquidity_token, LedgerKey(user, flaw),
                                              amount, flaw # "cpi"))
        /\ UNCHANGED claimed

CompleteWithdrawLiquidity ==
    \E user \in Users, flaw \in {"none", "unsigned", "ledger key", "cpi"} :
        /\ Commit(MaxCompleteOps, Instruction("WithdrawLiquidity", user, user, Yot(user), 0),
                  process_withdraw_liquidity(user, flaw # "unsigned",
                                             LedgerKey(user, flaw), "liquidity_yot",
                                             Yot(user), flaw # "cpi"))
        /\ UNCHANGED claimed

(* The state account does not exist, or holds the 136 bytes the earlier    *)
(* revision stored.  alice holds half of the largest supply of a mint.     *)
InitComplete ==
    /\ \E state \in {<<>>,
                     ProgramState_serialize(
                         CompleteProgramState("admin", YOT_MINT, YOS_MINT, PercentRates,
                                              DefaultPubkey, 0),
                         zeroed(OLD_PROGRAM_STATE_LEN)).data,
                     ProgramState_serialize(
                         CompleteProgramState("admin", YOT_MINT, YOS_MINT, PercentRates,
                                              DefaultPubkey, 0),
                         zeroed(PROGRAM_STATE_LEN - 1)).data} :
          accounts = [k \in SwapAccountKeys |->
                         IF k = find_program_state_address THEN state ELSE <<>>]
    /\ tok = [InitTokens EXCEPT !["alice_yot"] = U64_MAX \div 2 + 1]
    /\ now = StartTime
    /\ overflow_checks \in BOOLEAN
    /\ last = NoInstruction
    /\ ops = 0
    /\ claimed = [k \in LedgerKeys |-> <<>>]

NextComplete ==
    \/ CompleteInitialize
    \/ CompleteUpdateParameters
    \/ CompleteContribute
    \/ CompleteWithdrawLiquidity

SpecComplete == InitComplete /\ [][NextComplete]_vars

---------------------------------------------------------------------------
(* archive/multi_hub_swap_no_borsh.rs: the records are read and written    *)
(* with from_bytes and to_bytes; the ledger is at the seeds "liq" and the  *)
(* user.  The file has no Initialize: the state account it reads was       *)
(* written by the program it replaced.                                     *)

no_borsh_from_bytes(kind, data) == try_from_slice(kind, data)

(* lines 168-324 *)
no_borsh_process_buy_and_distribute(user, user_signs, user_yot, vault_yot, user_yos, program_yos, liq_key, state_key, amount, cpi_ok) ==
    IF ~user_signs THEN Err("MissingRequiredSignature", "user")
    ELSE IF find_program_state_address # state_key
    THEN Err("InvalidAccountData", "program state address")
    ELSE IF find_liquidity_contribution_address(user) # liq_key
    THEN Err("InvalidAccountData", "ledger address")
    ELSE IF ~no_borsh_from_bytes("ProgramState", accounts[state_key])
    THEN Err("InvalidAccountData", "program state")
    ELSE
    LET s == accounts[state_key]
        liquidity_portion == wrapping_mul(amount, s.lp_contribution_rate) \div 10000
        yos_cashback == wrapping_mul(amount, s.yos_cashback_rate) \div 10000
        old == IF data_is_empty(accounts[liq_key])
               THEN LiquidityContribution(user, 0, now, now, 0)
               ELSE accounts[liq_key]
        t1 == transfer(tok, user_yot, vault_yot, amount)
    IN  IF (\/ mul_overflows(amount, s.lp_contribution_rate)
            \/ mul_overflows(amount, s.yos_cashback_rate)) /\ overflow_checks
        THEN Panic
        ELSE IF data_is_empty(accounts[liq_key]) /\ ~cpi_ok
        THEN Err("Custom", "create_account")
        ELSE IF ~transfer_ok(tok, user_yot, vault_yot, user, amount, cpi_ok)
        THEN Err("Custom", "token program")
        ELSE IF ~no_borsh_from_bytes("LiquidityContribution", old)
        THEN Err("InvalidAccountData", "ledger")
        ELSE IF add_overflows(old.contributed_amount, liquidity_portion)
                /\ overflow_checks
        THEN Panic
        ELSE IF yos_cashback > 0
                /\ ~transfer_ok(t1, program_yos, user_yos,
                                find_program_authority_address, yos_cashback, cpi_ok)
        THEN Err("Custom", "token program")
        ELSE Ok(Write(liq_key,
                      [old EXCEPT !.contributed_amount =
                                      wrapping_add(@, liquidity_portion)]),
                IF yos_cashback > 0
                THEN transfer(t1, program_yos, user_yos, yos_cashback) ELSE t1)

(* lines 327-425: the week is checked before the contribution.             *)
no_borsh_process_claim_weekly_reward(user, user_signs, user_yos, program_yos, liq_key, cpi_ok) ==
    IF ~user_signs THEN Err("MissingRequiredSignature", "user")
    ELSE IF find_liquidity_contribution_address(user) # liq_key
    THEN Err("InvalidAccountData", "ledger address")
    ELSE IF ~no_borsh_from_bytes("LiquidityContribution", accounts[liq_key])
    THEN Err("InvalidAccountData", "ledger")
    ELSE
    LET contribution_data == accounts[liq_key]
        reward_amount == wrapping_mul(contribution_data.contributed_amount, 200)
                             \div 10000
    IN  IF contribution_data.user # user
        THEN Err("InvalidAccountData", "ledger user")
        ELSE IF now - contribution_data.last_claim_time < 604800
        THEN Err("Custom(100)", "TooEarly")
        ELSE IF contribution_data.contributed_amount = 0
        THEN Err("Custom(101)", "NothingToClaim")
        ELSE IF mul_overflows(contribution_data.contributed_amount, 200)
                /\ overflow_checks
        THEN Panic
        ELSE IF ~transfer_ok(tok, program_yos, user_yos,
                             find_program_authority_address, reward_amount, cpi_ok)
        THEN Err("Custom", "token program")
        ELSE IF add_overflows(contribution_data.total_claimed_yos, reward_amount)
                /\ overflow_checks
        THEN Panic
        ELSE Ok(Write(liq_key,
                      [contribution_data EXCEPT
                           !.last_claim_time = now,
                           !.total_claimed_yos = wrapping_add(@, reward_amount)]),
                transfer(tok, program_yos, user_yos, reward_amount))

(* lines 428-506 *)
no_borsh_process_withdraw_contribution(user, user_signs, liq_key, vault_yot, user_yot, cpi_ok) ==
    IF ~user_signs THEN Err("MissingRequiredSignature", "user")
    ELSE IF find_liquidity_contribution_address(user) # liq_key
    THEN Err("InvalidAccountData", "ledger address")
    ELSE IF ~no_borsh_from_bytes("LiquidityContribution", accounts[liq_key])
    THEN Err("InvalidAccountData", "ledger")
    ELSE IF accounts[liq_key].user # user
    THEN Err("InvalidAccountData", "ledger user")
    ELSE IF accounts[liq_key].contributed_amount = 0
    THEN Err("Custom(102)", "NothingToWithdraw")
    ELSE IF ~transfer_ok(tok, vault_yot, user_yot, find_program_authority_address,
                         accounts[liq_key].contributed_amount, cpi_ok)
    THEN Err("Custom", "token program")
    ELSE Ok(Write(liq_key, [accounts[liq_key] EXCEPT !.contributed_amount = 0]),
            transfer(tok, vault_yot, user_yot, accounts[liq_key].contributed_amount))

(* lines 509-583 *)
no_borsh_process_update_parameters(admin, admin_signs, state_key, rates) ==
    IF ~admin_signs THEN Err("MissingRequiredSignature", "admin")
    ELSE IF find_program_state_address # state_key
    THEN Err("InvalidAccountData", "program state address")
    ELSE IF ~no_borsh_from_bytes("ProgramState", accounts[state_key])
    THEN Err("InvalidAccountData", "program state")
    ELSE IF accounts[state_key].admin # admin THEN Err("Custom(103)", "Unauthorized")
    ELSE IF rates.lp > 5000 THEN Err("Custom(104)", "lp rate")
    ELSE IF rates.cashback > 2000 THEN Err("Custom(105)", "cashback rate")
    ELSE IF rates.fee > 1000 THEN Err("Custom(106)", "admin fee")
    ELSE IF rates.swap > 1000 THEN Err("Custom(107)", "swap fee")
    ELSE IF rates.referral > 1000 THEN Err("Custom(108)", "referral rate")
    ELSE LET s == accounts[state_key]
         IN  Ok(Write(state_key, ProgramState(s.admin, s.yot_mint, s.yos_mint, rates)),
                tok)

NoBorshBuyAndDistribute ==
    \E user \in Users, amount \in Amounts, flaw \in Flaws \ {"mint", "source"} :
        /\ Commit(MaxOps, Instruction("BuyAndDistribute", user, user, Yot(user), amount),
                  no_borsh_process_buy_and_distribute(
                      user, flaw # "unsigned", Yot(user), "vault_yot", Yos(user),
                      "program_yos", LedgerKey(user, flaw), StateKey(flaw), amount,
                      flaw # "cpi"))
        /\ UNCHANGED claimed

NoBorshClaimWeeklyReward ==
    \E user \in Users, flaw \in {"none", "unsigned", "ledger key", "cpi"} :
        /\ Commit(MaxOps, Instruction("ClaimWeeklyReward", user, user, Yos(user), 0),
                  no_borsh_process_claim_weekly_reward(
                      user, flaw # "unsigned", Yos(user), "program_yos",
                      LedgerKey(user, flaw), flaw # "cpi"))
        /\ UNCHANGED claimed

NoBorshWithdrawContribution ==
    \E user \in Users, flaw \in {"none", "unsigned", "ledger key", "cpi"} :
        /\ Commit(MaxOps, Instruction("WithdrawContribution", user, user, Yot(user), 0),
                  no_borsh_process_withdraw_contribution(
                      user, flaw # "unsigned", LedgerKey(user, flaw), "vault_yot",
                      Yot(user), flaw # "cpi"))
        /\ UNCHANGED claimed

NoBorshUpdateParameters ==
    \E admin \in {"admin", "bob"}, rates \in RateSets, flaw \in {"none", "unsigned"} :
        /\ Commit(MaxOps, Instruction("UpdateParameters", admin, admin, "", 0),
                  no_borsh_process_update_parameters(admin, flaw # "unsigned",
                                                     find_program_state_address, rates))
        /\ UNCHANGED claimed

InitNoBorsh ==
    /\ accounts = [k \in SwapAccountKeys |->
                      IF k = find_program_state_address
                      THEN ProgramState("admin", YOT_MINT, YOS_MINT, DefaultRates)
                      ELSE EmptyData]
    /\ tok = [InitTokens EXCEPT !["program_yos"] = InitialYot]
    /\ now = StartTime
    /\ overflow_checks \in BOOLEAN
    /\ last = NoInstruction
    /\ ops = 0
    /\ claimed = [k \in LedgerKeys |-> <<>>]

NextNoBorsh ==
    \/ NoBorshBuyAndDistribute
    \/ NoBorshClaimWeeklyReward
    \/ NoBorshWithdrawContribution
    \/ NoBorshUpdateParameters
    \/ Tick

SpecNoBorsh == InitNoBorsh /\ [][NextNoBorsh]_vars

(* multi_hub_swap_complete.rs, lines 207-341: process_instruction.  The    *)
(* arms of the match in their order, each with the least length of the     *)
(* instruction data it accepts; the first arm whose pattern is the first   *)
(* byte is taken.                                                          *)
CompleteArms ==
    << <<0, 1, "process_initialize">>,
       <<1, 9, "process_swap">>,
       <<2, 9, "process_contribute">>,
       <<3, 1, "process_claim_rewards">>,
       <<4, 9, "process_buy_and_distribute">>,
       <<5, 1, "process_withdraw_liquidity">>,
       <<6, 41, "process_update_parameters">>,
       <<6, 41, "process_repair_program_state">>,
       <<7, 1, "process_create_liquidity_account">>,
       <<8, 17, "process_sol_to_yot_swap_immediate">>,
       <<9, 17, "process_yot_to_sol_swap_immediate">>,
       <<10, 17, "process_sol_to_yot_swap">>,
       <<11, 1, "process_add_liquidity_from_central_wallet">> >>
complete_process_instruction(instruction_data) ==
    LET matching == {i \in DOMAIN CompleteArms : CompleteArms[i][1] = Head(instruction_data)}
        first == CHOOSE i \in matching : \A j \in matching : i <= j
    IN  IF instruction_data = <<>> \/ matching = {} THEN "InvalidInstructionData"
        ELSE IF Len(instruction_data) < CompleteArms[first][2]
        THEN "InvalidInstructionData"
        ELSE CompleteArms[first][3]

---------------------------------------------------------------------------
(* program/src/multihub_swap_v4.rs: Initialize, Swap and CloseProgram.     *)
(* The state has the fields of ProgramState above and is at the same       *)
(* derived address.                                                        *)

MaxV4Ops == 3

(* lines 377-392: the five shares of amount_in and what is left of it,     *)
(* with unchecked *, / and -.                                              *)
v4_swap_amounts(amount_in, s) ==
    LET lp_contribution_amount == wrapping_mul(amount_in, s.lp_contribution_rate) \div 10000
        admin_fee_amount == wrapping_mul(amount_in, s.admin_fee_rate) \div 10000
        yos_cashback_amount == wrapping_mul(amount_in, s.yos_cashback_rate) \div 10000
        swap_fee_amount == wrapping_mul(amount_in, s.swap_fee_rate) \div 10000
        referral_amount == wrapping_mul(amount_in, s.referral_rate) \div 10000
        n1 == wrapping_sub(amount_in, lp_contribution_amount)
        n2 == wrapping_sub(n1, admin_fee_amount)
        n3 == wrapping_sub(n2, swap_fee_amount)
    IN  [yos_cashback_amount |-> yos_cashback_amount,
         net_swap_amount |-> wrapping_sub(n3, referral_amount),
         mul_overflow |-> \/ mul_overflows(amount_in, s.lp_contribution_rate)
                          \/ mul_overflows(amount_in, s.admin_fee_rate)
                          \/ mul_overflows(amount_in, s.yos_cashback_rate)
                          \/ mul_overflows(amount_in, s.swap_fee_rate)
                          \/ mul_overflows(amount_in, s.referral_rate),
         underflow |-> \/ sub_overflows(amount_in, lp_contribution_amount)
                       \/ sub_overflows(n1, admin_fee_amount)
                       \/ sub_overflows(n2, swap_fee_amount)
                       \/ sub_overflows(n3, referral_amount)]

(* lines 171-280: the rates are stored as they come; an account that       *)
(* exists is written again.                                                *)
v4_process_initialize(payer_signs, state_key, authority_key, admin, yot_mint, yos_mint, rates, cpi_ok) ==
    IF ~payer_signs THEN Err("MissingRequiredSignature", "payer")
    ELSE IF find_program_state_address # state_key
    THEN Err("InvalidAccountData", "program state address")
    ELSE IF find_program_authority_address # authority_key
    THEN Err("InvalidAccountData", "program authority address")
    ELSE IF data_is_empty(accounts[state_key]) /\ ~cpi_ok
    THEN Err("Custom", "create_account")
    ELSE Ok(Write(state_key, ProgramState(admin, yot_mint, yos_mint, rates)), tok)

(* lines 283-481 *)
v4_process_swap(user, user_signs, state_key, authority_key, user_token_from, user_token_to, user_yos, program_token_from, program_token_to, program_yos, amount_in, min_amount_out, cpi_ok) ==
    IF ~user_signs THEN Err("MissingRequiredSignature", "user")
    ELSE IF find_program_state_address # state_key
    THEN Err("InvalidAccountData", "program state address")
    ELSE IF find_program_authority_address # authority_key
    THEN Err("InvalidAccountData", "program authority address")
    ELSE IF ~try_from_slice("ProgramState", accounts[state_key])
    THEN Err("BorshIoError", "program state")
    ELSE
    LET a == v4_swap_amounts(amount_in, accounts[state_key])
        amount_out == wrapping_mul(a.net_swap_amount, 90) \div 100
        t1 == transfer(tok, user_token_from, program_token_from, amount_in)
        t2 == transfer(t1, program_token_to, user_token_to, amount_out)
    IN  IF (a.mul_overflow \/ a.underflow) /\ overflow_checks THEN Panic
        ELSE IF tok[user_token_from] < amount_in
        THEN Err("InsufficientFunds", "user balance")
        ELSE IF ~transfer_ok(tok, user_token_from, program_token_from, user, amount_in,
                             cpi_ok)
        THEN Err("Custom", "token program")
        ELSE IF mul_overflows(a.net_swap_amount, 90) /\ overflow_checks THEN Panic
        ELSE IF amount_out < min_amount_out THEN Err("InvalidArgument", "min amount out")
        ELSE IF ~transfer_ok(t1, program_token_to, user_token_to, authority_key,
                             amount_out, cpi_ok)
        THEN Err("Custom", "token program")
        ELSE IF ~transfer_ok(t2, program_yos, user_yos, authority_key,
                             a.yos_cashback_amount, cpi_ok)
        THEN Err("Custom", "token program")
        ELSE Ok(accounts, transfer(t2, program_yos, user_yos, a.yos_cashback_amount))

(* lines 484-546 *)
v4_process_close_program(admin_account, admin_signs, state_key, authority_key) ==
    IF find_program_state_address # state_key
    THEN Err("InvalidAccountData", "program state address")
    ELSE IF find_program_authority_address # authority_key
    THEN Err("InvalidAccountData", "program authority address")
    ELSE IF ~try_from_slice("ProgramState", accounts[state_key])
    THEN Err("InvalidAccountData", "program state")
    ELSE IF ~admin_signs THEN Err("MissingRequiredSignature", "admin")
    ELSE IF accounts[state_key].admin # admin_account
    THEN Err("InvalidAccountData", "admin")
    \* the account is left without lamports: the runtime removes it when the
    \* transaction commits
    ELSE Ok(Write(state_key, EmptyData), tok)

V4RateSets ==
    {DefaultRates,
     [lp |-> 5000, fee |-> 1000, cashback |-> 1000, swap |-> 1000, referral |-> 1000],
     [lp |-> 9000, fee |-> 1000, cashback |-> 0, swap |-> 1000, referral |-> 0]}

V4Initialize ==
    \E payer \in {"admin", "bob"}, rates \in V4RateSets,
       flaw \in {"none", "unsigned", "state key", "cpi"} :
        /\ Commit(MaxV4Ops, Instruction("Initialize", payer, payer, "", 0),
                  v4_process_initialize(flaw # "unsigned", StateKey(flaw),
                                        find_program_authority_address, payer,
                                        YOT_MINT, YOS_MINT, rates, flaw # "cpi"))
        /\ UNCHANGED claimed

V4Swap ==
    \E user \in Users, amount_in \in Amounts, min_amount_out \in {0, 80},
       flaw \in {"none", "unsigned", "state key", "cpi"} :
        /\ Commit(MaxV4Ops, Instruction("Swap", user, user, Yos(user), amount_in),
                  v4_process_swap(user, flaw # "unsigned", StateKey(flaw),
                                  find_program_authority_address, Yot(user), Yos(user),
                                  Yos(user), "vault_yot", "program_yos", "program_yos",
                                  amount_in, min_amount_out, flaw # "cpi"))
        /\ UNCHANGED claimed

V4CloseProgram ==
    \E admin_account \in {"admin", "bob"}, flaw \in {"none", "unsigned", "state key"} :
        /\ Commit(MaxV4Ops,
                  Instruction("CloseProgram", admin_account, admin_account, "", 0),
                  v4_process_close_program(admin_account, flaw # "unsigned",
                                           StateKey(flaw),
                                           find_program_authority_address))
        /\ UNCHANGED claimed

InitV4 ==
    /\ accounts = [k \in SwapAccountKeys |-> EmptyData]
    /\ tok = [InitTokens EXCEPT !["program_yos"] = InitialYot]
    /\ now = StartTime
    /\ overflow_checks \in BOOLEAN
    /\ last = NoInstruction
    /\ ops = 0
    /\ claimed = [k \in LedgerKeys |-> <<>>]

NextV4 ==
    \/ V4Initialize
    \/ V4Swap
    \/ V4CloseProgram

SpecV4 == InitV4 /\ [][NextV4]_vars

---------------------------------------------------------------------------
(* program/src/multihub_swap.rs.  Its records are Borsh encoded into the   *)
(* accounts an instruction names; no handler compares an account's address *)
(* or kind with what it expects, so an account is the bytes it holds.  A   *)
(* record is read with try_from_slice, which wants the exact length and 0  *)
(* or 1 in a bool, and written with serialize over the start of the data.  *)

MaxMultihubOps == 3

MultihubProgramStateLen == 1 + 1 + 32 * 5 + 1 + 4 + 2 + 8 * 5 + 4 + 2 + 8
UserRewardsLen == 32 + 8 * 5
LpStakingLen == 32 + 32 + 8 * 4
ReferrerLen == 32 + 4 + 8 * 3

(* The fields of a record by their offsets in the encoding.                *)
u8_at(data, offset) == data[offset + 1]
u64_at(data, offset) == from_le_bytes(array_ref(data, offset, 8))
pubkey_at(data, offset) == array_ref(data, offset, 32)
put(data, offset, bytes) ==
    [i \in 1 .. Len(data) |->
        IF i > offset /\ i <= offset + Len(bytes) THEN bytes[i - offset] ELSE data[i]]

(* serialize into the account: it fails when the record does not fit.      *)
serialize(key, record, t) ==
    IF Len(record) > Len(accounts[key]) THEN Err("BorshIoError", "failed to write")
    ELSE Ok(Write(key, put(accounts[key], 0, record)), t)

saturating_add(a, b) == IF add_overflows(a, b) THEN U64_MAX ELSE a + b
saturating_mul(a, b) == IF mul_overflows(a, b) THEN U64_MAX ELSE a * b
saturating_sub(a, b) == IF a < b THEN 0 ELSE a - b

(* lines 220-263: ProgramState.  is_initialized 0, is_paused 1, admin 2,   *)
(* yot_mint 34, yos_mint 66, sol_yot_pool 98, authority 130,               *)
(* authority_bump 162, the four percentages 163-166, lp_apr 167, the five  *)
(* totals from 169, total_users 209, total_pools 213, last_update_time 215.*)
multihub_ProgramState_try_from_slice(data) ==
    /\ Len(data) = MultihubProgramStateLen
    /\ data[1] \in {0, 1}
    /\ data[2] \in {0, 1}
is_paused(data) == u8_at(data, 1) = 1
state_admin(data) == pubkey_at(data, 2)

(* lines 443-448 *)
check_program_paused(program_state) == is_paused(program_state)

(* lines 451-512 *)
multihub_process_initialize(admin_account, admin_signs, state_key, yot_mint, yos_mint, sol_yot_pool, authority_bump) ==
    IF ~admin_signs THEN Err("MissingRequiredSignature", "admin")
    ELSE IF accounts[state_key] = <<>> THEN Err("Panic", "index out of bounds")
    ELSE IF accounts[state_key][1] # 0 THEN Err("Custom(2)", "AlreadyInitialized")
    ELSE serialize(state_key,
                   <<1, 0>> \o as_ref(admin_account) \o as_ref(yot_mint)
                   \o as_ref(yos_mint) \o as_ref(sol_yot_pool)
                   \o as_ref(find_program_authority_address)
                   \o <<authority_bump, 20, 1, 30, 5>> \o le_bytes(10000, 2)
                   \o zeroed(8 * 5 + 4 + 2) \o to_le_bytes(now),
                   tok)

(* lines 1161-1230: None is <<>>, Some(v) is <<v>>.                        *)
multihub_process_update_parameters(admin_account, admin_signs, state_key, params) ==
    LET data == accounts[state_key]
        set(d, option, offset) == IF option = <<>> THEN d ELSE put(d, offset, option)
        d1 == set(data, params.liquidity_contribution_percent, 163)
        d2 == set(d1, params.admin_fee_percent, 164)
        d3 == set(d2, params.yos_cashback_percent, 165)
        d4 == set(d3, params.referral_percent, 166)
        d5 == IF params.lp_apr = <<>> THEN d4
              ELSE put(d4, 167, le_bytes(params.lp_apr[1], 2))
        d6 == IF params.new_admin = <<>> THEN d5
              ELSE put(d5, 2, as_ref(params.new_admin[1]))
        above(option, max) == option # <<>> /\ option[1] > max
    IN  IF ~multihub_ProgramState_try_from_slice(data)
        THEN Err("BorshIoError", "program state")
        ELSE IF ~admin_signs \/ state_admin(data) # as_ref(admin_account)
        THEN Err("Custom(3)", "InvalidAuthority")
        ELSE IF \/ above(params.liquidity_contribution_percent, 50)
                \/ above(params.admin_fee_percent, 10)
                \/ above(params.yos_cashback_percent, 50)
                \/ above(params.referral_percent, 10)
                \/ above(params.lp_apr, 20000)
        THEN Err("Custom(11)", "InvalidParameter")
        ELSE serialize(state_key, d6, tok)

(* lines 1233-1265 *)
multihub_process_emergency_pause(admin_account, admin_signs, state_key, pause) ==
    LET data == accounts[state_key]
    IN  IF ~multihub_ProgramState_try_from_slice(data)
        THEN Err("BorshIoError", "program state")
        ELSE IF ~admin_signs \/ state_admin(data) # as_ref(admin_account)
        THEN Err("Custom(3)", "InvalidAuthority")
        ELSE serialize(state_key, put(data, 1, <<IF pause THEN 1 ELSE 0>>), tok)

(* lines 1127-1158: a Referrer is written over the account named, whatever *)
(* it holds.                                                               *)
process_register_referrer(user, user_signs, referrer_key) ==
    IF ~user_signs THEN Err("MissingRequiredSignature", "user")
    ELSE serialize(referrer_key,
                   as_ref(user) \o zeroed(4) \o to_le_bytes(0) \o to_le_bytes(0)
                   \o to_le_bytes(now),
                   tok)

(* lines 1268-1333; the mints are "sol", "yot", "yos" or another token.    *)
is_direct_swap_supported(input_token_mint, output_token_mint) ==
    \/ input_token_mint = "sol" /\ output_token_mint = "yot"
    \/ input_token_mint = "yot" /\ output_token_mint = "sol"
    \/ input_token_mint = "yot" /\ output_token_mint = "yos"
    \/ input_token_mint = "yos" /\ output_token_mint = "yot"
should_use_multi_hop(input_token_mint, output_token_mint) ==
    LET is_input_sol == input_token_mint = "sol"
        is_output_sol == output_token_mint = "sol"
        is_input_yot == input_token_mint = "yot"
        is_output_yot == output_token_mint = "yot"
    IN  IF is_direct_swap_supported(input_token_mint, output_token_mint)
        THEN <<FALSE, FALSE>>
        ELSE IF ~is_input_sol /\ ~is_output_sol /\ ~is_input_yot /\ ~is_output_yot
        THEN <<TRUE, TRUE>>
        ELSE IF (is_input_sol /\ ~is_output_yot) \/ (is_output_sol /\ ~is_input_yot)
        THEN <<TRUE, FALSE>>
        ELSE IF (is_input_yot /\ ~is_output_sol) \/ (is_output_yot /\ ~is_input_sol)
        THEN <<TRUE, TRUE>>
        ELSE <<FALSE, FALSE>>

(* lines 1335-1387 *)
calculate_output_amount(amount_in, input_token_mint, output_token_mint) ==
    IF input_token_mint = "sol" /\ output_token_mint = "yot"
    THEN saturating_mul(amount_in, 500000)
    ELSE IF input_token_mint = "yot" /\ output_token_mint = "sol"
    THEN amount_in \div 500000
    ELSE IF input_token_mint = "yot" /\ output_token_mint = "yos"
    THEN amount_in \div 10
    ELSE IF input_token_mint = "yos" /\ output_token_mint = "yot"
    THEN saturating_mul(amount_in, 10)
    ELSE amount_in \div 2

(* lines 1415-1431 *)
RECURSIVE integer_sqrt_loop(_, _, _)
integer_sqrt_loop(x, y, n) ==
    IF y < x THEN integer_sqrt_loop(y, (y + n \div y) \div 2, n) ELSE x
integer_sqrt(n) == IF n = 0 THEN 0 ELSE integer_sqrt_loop(n, (n + 1) \div 2, n)

(* lines 515-672: no token moves; the totals of the state are updated.     *)
multihub_process_swap(user, user_signs, state_key, amount_in, minimum_amount_out, input_token_mint, output_token_mint, referrer) ==
    LET data == accounts[state_key]
        hop == should_use_multi_hop(input_token_mint, output_token_mint)
        through == IF hop[2] THEN "sol" ELSE "yot"
        total_amount_out ==
            IF hop[1]
            THEN calculate_output_amount(
                     calculate_output_amount(amount_in, input_token_mint, through),
                     through, output_token_mint)
            ELSE calculate_output_amount(amount_in, input_token_mint, output_token_mint)
        liquidity_amount == saturating_mul(amount_in, u8_at(data, 163)) \div 100
        yos_cashback == saturating_mul(amount_in, u8_at(data, 165)) \div 1000
        referral_reward ==
            IF referrer = <<>> \/ referrer = <<user>> THEN 0
            ELSE saturating_mul(amount_in, u8_at(data, 166)) \div 1000
        d1 == put(data, 169, to_le_bytes(saturating_add(u64_at(data, 169), amount_in)))
        d2 == put(d1, 177,
                  to_le_bytes(saturating_add(u64_at(data, 177), liquidity_amount)))
        d3 == put(d2, 185, to_le_bytes(saturating_add(u64_at(data, 185), yos_cashback)))
        d4 == IF referral_reward > 0
              THEN put(d3, 193,
                       to_le_bytes(saturating_add(u64_at(data, 193), referral_reward)))
              ELSE d3
    IN  IF ~user_signs THEN Err("MissingRequiredSignature", "user")
        ELSE IF ~multihub_ProgramState_try_from_slice(data)
        THEN Err("BorshIoError", "program state")
        ELSE IF check_program_paused(data) THEN Err("Custom(12)", "EmergencyPaused")
        ELSE IF total_amount_out < minimum_amount_out
        THEN Err("Custom(4)", "SlippageExceeded")
        ELSE serialize(state_key, put(d4, 215, to_le_bytes(now)), tok)

(* lines 674-736 *)
process_add_liquidity(user, user_signs, state_key, amount_a, amount_b, minimum_lp_tokens) ==
    LET data == accounts[state_key]
        lp_tokens_to_mint == integer_sqrt(wrapping_mul(amount_a, amount_b))
    IN  IF ~user_signs THEN Err("MissingRequiredSignature", "user")
        ELSE IF ~multihub_ProgramState_try_from_slice(data)
        THEN Err("BorshIoError", "program state")
        ELSE IF check_program_paused(data) THEN Err("Custom(12)", "EmergencyPaused")
        ELSE IF mul_overflows(amount_a, amount_b) /\ overflow_checks THEN Panic
        ELSE IF lp_tokens_to_mint < minimum_lp_tokens
        THEN Err("Custom(4)", "SlippageExceeded")
        ELSE serialize(state_key, put(data, 215, to_le_bytes(now)), tok)

(* lines 739-802 *)
process_remove_liquidity(user, user_signs, state_key, lp_amount, minimum_a_amount, minimum_b_amount) ==
    LET data == accounts[state_key]
    IN  IF ~user_signs THEN Err("MissingRequiredSignature", "user")
        ELSE IF ~multihub_ProgramState_try_from_slice(data)
        THEN Err("BorshIoError", "program state")
        ELSE IF check_program_paused(data) THEN Err("Custom(12)", "EmergencyPaused")
        ELSE IF lp_amount \div 2 < minimum_a_amount \/ lp_amount \div 2 < minimum_b_amount
        THEN Err("Custom(4)", "SlippageExceeded")
        ELSE serialize(state_key, put(data, 215, to_le_bytes(now)), tok)

(* lines 805-881: UserRewards.  user 0, pending_yos_rewards 32,            *)
(* pending_referral_rewards 40, total_claimed 48, total_swap_volume 56,    *)
(* last_update_time 64.                                                    *)
multihub_process_claim_rewards(user, user_signs, user_yos, rewards_key, program_yos_treasury, program_authority, cpi_ok) ==
    LET data == accounts[rewards_key]
        total_pending_rewards == saturating_add(u64_at(data, 32), u64_at(data, 40))
        d1 == put(data, 48,
                  to_le_bytes(saturating_add(u64_at(data, 48), total_pending_rewards)))
        d2 == put(d1, 32, to_le_bytes(0) \o to_le_bytes(0))
    IN  IF ~user_signs THEN Err("MissingRequiredSignature", "user")
        ELSE IF Len(data) # UserRewardsLen THEN Err("BorshIoError", "user rewards")
        ELSE IF total_pending_rewards = 0 THEN Err("Custom(10)", "NoRewardsAvailable")
        ELSE IF ~transfer_ok(tok, program_yos_treasury, user_yos, program_authority,
                             total_pending_rewards, cpi_ok)
        THEN Err("Custom", "token program")
        ELSE serialize(rewards_key, put(d2, 64, to_le_bytes(now)),
                       transfer(tok, program_yos_treasury, user_yos,
                                total_pending_rewards))

(* lines 884-979: LpStaking.  user 0, lp_mint 32, staked_amount 64,        *)
(* accumulated_rewards 72, last_harvest_time 80, stake_start_time 88.      *)
process_claim_yield_rewards(user, user_signs, user_yos, staking_key, program_yos_treasury, program_authority, cpi_ok) ==
    LET data == accounts[staking_key]
        time_since_last_harvest == saturating_sub(now, u64_at(data, 80))
        weeks_elapsed == time_since_last_harvest \div 604800
        pending_rewards ==
            saturating_mul(saturating_mul(u64_at(data, 64), 192), weeks_elapsed)
                \div 10000
        d1 == put(data, 72,
                  to_le_bytes(saturating_add(u64_at(data, 72), pending_rewards)))
    IN  IF ~user_signs THEN Err("MissingRequiredSignature", "user")
        ELSE IF Len(data) # LpStakingLen THEN Err("BorshIoError", "lp staking")
        ELSE IF time_since_last_harvest < 604800
        THEN Err("Custom(10)", "NoRewardsAvailable")
        ELSE IF pending_rewards = 0 THEN Err("Custom(10)", "NoRewardsAvailable")
        ELSE IF ~transfer_ok(tok, program_yos_treasury, user_yos, program_authority,
                             pending_rewards, cpi_ok)
        THEN Err("Custom", "token program")
        ELSE serialize(staking_key, put(d1, 80, to_le_bytes(now)),
                       transfer(tok, program_yos_treasury, user_yos, pending_rewards))

(* lines 982-1053: the tokens are transferred first; a record is written   *)
(* into an account without data, or added to in one that holds the         *)
(* signer's.                                                               *)
process_stake_lp_tokens(user, user_signs, user_lp_token_account, program_lp_vault, staking_key, amount, cpi_ok) ==
    LET data == accounts[staking_key]
        t1 == transfer(tok, user_lp_token_account, program_lp_vault, amount)
    IN  IF ~user_signs THEN Err("MissingRequiredSignature", "user")
        ELSE IF ~transfer_ok(tok, user_lp_token_account, program_lp_vault, user, amount,
                             cpi_ok)
        THEN Err("Custom", "token program")
        ELSE IF data = <<>>
        THEN serialize(staking_key,
                       as_ref(user) \o as_ref(user_lp_token_account)
                       \o to_le_bytes(amount) \o to_le_bytes(0) \o to_le_bytes(now)
                       \o to_le_bytes(now),
                       t1)
        ELSE IF Len(data) # LpStakingLen THEN Err("BorshIoError", "lp staking")
        ELSE IF pubkey_at(data, 0) # as_ref(user)
        THEN Err("InvalidAccountData", "lp staking user")
        ELSE serialize(staking_key,
                       put(data, 64,
                           to_le_bytes(saturating_add(u64_at(data, 64), amount))),
                       t1)

(* lines 1056-1124 *)
process_unstake_lp_tokens(user, user_signs, user_lp_token_account, program_lp_vault, staking_key, program_authority, amount, cpi_ok) ==
    LET data == accounts[staking_key]
    IN  IF ~user_signs THEN Err("MissingRequiredSignature", "user")
        ELSE IF Len(data) # LpStakingLen THEN Err("BorshIoError", "lp staking")
        ELSE IF pubkey_at(data, 0) # as_ref(user)
        THEN Err("InvalidAccountData", "lp staking user")
        ELSE IF u64_at(data, 64) < amount THEN Err("Custom(6)", "InsufficientFunds")
        ELSE IF ~transfer_ok(tok, program_lp_vault, user_lp_token_account,
                             program_authority, amount, cpi_ok)
        THEN Err("Custom", "token program")
        ELSE serialize(staking_key,
                       put(data, 64,
                           to_le_bytes(saturating_sub(u64_at(data, 64), amount))),
                       transfer(tok, program_lp_vault, user_lp_token_account, amount))

(* The accounts the instructions of multihub_swap.rs name.  Each is owned  *)
(* by the program and was created zeroed, of the size of the record it is  *)
(* meant for; "new_staking" has not been created.  No handler derives or   *)
(* compares the address of a data account, so an instruction may name any  *)
(* of them wherever a data account is expected.                            *)
MultihubAccountKeys ==
    {find_program_state_address, "lp_staking", "new_staking", "user_rewards",
     "referrer"}
MultihubAccountLen(key) ==
    CASE key = find_program_state_address -> MultihubProgramStateLen
      [] key = "lp_staking" -> LpStakingLen
      [] key = "user_rewards" -> UserRewardsLen
      [] key = "referrer" -> ReferrerLen
      [] OTHER -> 0
NoParams ==
    [liquidity_contribution_percent |-> <<>>, admin_fee_percent |-> <<>>,
     yos_cashback_percent |-> <<>>, referral_percent |-> <<>>, lp_apr |-> <<>>,
     new_admin |-> <<>>]
MultihubParams ==
    {NoParams,
     [NoParams EXCEPT !.liquidity_contribution_percent = <<50>>],
     [NoParams EXCEPT !.liquidity_contribution_percent = <<51>>],
     [NoParams EXCEPT !.new_admin = <<"bob">>]}
MultihubMints == {"sol", "yot", "yos", "other"}
LpAmounts == {0, 1000}

MultihubInitialize ==
    \E admin_account \in {"admin", "bob"}, admin_signs \in BOOLEAN :
        /\ Commit(MaxMultihubOps,
                  Instruction("Initialize", admin_account, admin_account,
                              find_program_state_address, 0),
                  multihub_process_initialize(admin_account, admin_signs,
                                              find_program_state_address, YOT_MINT,
                                              YOS_MINT, "wallet", 255))
        /\ UNCHANGED claimed

MultihubSwap ==
    \E user \in Users, user_signs \in BOOLEAN, amount_in \in LpAmounts,
       minimum_amount_out \in {0, 501}, input_token_mint \in MultihubMints,
       output_token_mint \in {"yot", "other"},
       referrer \in {<<>>, <<"alice">>} :
        /\ Commit(MaxMultihubOps,
                  Instruction("Swap", user, user, find_program_state_address, amount_in),
                  multihub_process_swap(user, user_signs, find_program_state_address,
                                        amount_in, minimum_amount_out, input_token_mint,
                                        output_token_mint, referrer))
        /\ UNCHANGED claimed

MultihubAddLiquidity ==
    \E user \in Users, user_signs \in BOOLEAN, amount_a \in LpAmounts,
       amount_b \in LpAmounts, minimum_lp_tokens \in {0, 1001} :
        /\ Commit(MaxMultihubOps,
                  Instruction("AddLiquidity", user, user, find_program_state_address,
                              amount_a),
                  process_add_liquidity(user, user_signs, find_program_state_address,
                                        amount_a, amount_b, minimum_lp_tokens))
        /\ UNCHANGED claimed

MultihubRemoveLiquidity ==
    \E user \in Users, user_signs \in BOOLEAN, lp_amount \in LpAmounts,
       minimum_a_amount \in {0, 501}, minimum_b_amount \in {0, 501} :
        /\ Commit(MaxMultihubOps,
                  Instruction("RemoveLiquidity", user, user, find_program_state_address,
                              lp_amount),
                  process_remove_liquidity(user, user_signs, find_program_state_address,
                                           lp_amount, minimum_a_amount,
                                           minimum_b_amount))
        /\ UNCHANGED claimed

MultihubClaimRewards ==
    \E user \in Users, user_signs \in BOOLEAN,
       rewards_key \in {"user_rewards", "lp_staking"}, cpi_ok \in BOOLEAN :
        /\ Commit(MaxMultihubOps,
                  Instruction("ClaimRewards", user, user, rewards_key, 0),
                  multihub_process_claim_rewards(user, user_signs, Yos(user),
                                                 rewards_key, "program_yos",
                                                 find_program_authority_address,
                                                 cpi_ok))
        /\ UNCHANGED claimed

MultihubClaimYieldRewards ==
    \E user \in Users, user_signs \in BOOLEAN,
       staking_key \in {"lp_staking", "new_staking"}, cpi_ok \in BOOLEAN :
        /\ Commit(MaxMultihubOps,
                  Instruction("ClaimYieldRewards", user, user, staking_key, 0),
                  process_claim_yield_rewards(user, user_signs, Yos(user), staking_key,
                                              "program_yos",
                                              find_program_authority_address, cpi_ok))
        /\ UNCHANGED claimed

MultihubStakeLpTokens ==
    \E user \in Users, user_signs \in BOOLEAN,
       staking_key \in {"lp_staking", "new_staking"}, amount \in LpAmounts,
       cpi_ok \in BOOLEAN :
        /\ Commit(MaxMultihubOps,
                  Instruction("StakeLpTokens", user, user, staking_key, amount),
                  process_stake_lp_tokens(user, user_signs, Yot(user), "vault_yot",
                                          staking_key, amount, cpi_ok))
        /\ UNCHANGED claimed

MultihubUnstakeLpTokens ==
    \E user \in Users, user_signs \in BOOLEAN,
       staking_key \in {"lp_staking", "new_staking"}, amount \in LpAmounts,
       cpi_ok \in BOOLEAN :
        /\ Commit(MaxMultihubOps,
                  Instruction("UnstakeLpTokens", user, user, staking_key, amount),
                  process_unstake_lp_tokens(user, user_signs, Yot(user), "vault_yot",
                                            staking_key,
                                            find_program_authority_address, amount,
                                            cpi_ok))
        /\ UNCHANGED claimed

MultihubRegisterReferrer ==
    \E user \in Users, user_signs \in BOOLEAN, referrer_key \in MultihubAccountKeys :
        /\ Commit(MaxMultihubOps,
                  Instruction("RegisterReferrer", user, user, referrer_key, 0),
                  process_register_referrer(user, user_signs, referrer_key))
        /\ UNCHANGED claimed

MultihubUpdateParameters ==
    \E admin_account \in {"admin", "bob"}, admin_signs \in BOOLEAN,
       params \in MultihubParams :
        /\ Commit(MaxMultihubOps,
                  Instruction("UpdateParameters", admin_account, admin_account,
                              find_program_state_address, 0),
                  multihub_process_update_parameters(admin_account, admin_signs,
                                                     find_program_state_address,
                                                     params))
        /\ UNCHANGED claimed

MultihubEmergencyPause ==
    \E admin_account \in {"admin", "bob"}, admin_signs \in BOOLEAN, pause \in BOOLEAN :
        /\ Commit(MaxMultihubOps,
                  Instruction("EmergencyPause", admin_account, admin_account,
                              find_program_state_address, 0),
                  multihub_process_emergency_pause(admin_account, admin_signs,
                                                   find_program_state_address, pause))
        /\ UNCHANGED claimed

InitMultihub ==
    /\ accounts = [k \in MultihubAccountKeys |-> zeroed(MultihubAccountLen(k))]
    /\ tok = [InitTokens EXCEPT !["program_yos"] = InitialYot]
    /\ now = StartTime
    /\ overflow_checks \in BOOLEAN
    /\ last = NoInstruction
    /\ ops = 0
    /\ claimed = [k \in LedgerKeys |-> <<>>]

NextMultihub ==
    \/ MultihubInitialize
    \/ MultihubSwap
    \/ MultihubAddLiquidity
    \/ MultihubRemoveLiquidity
    \/ MultihubClaimRewards
    \/ MultihubClaimYieldRewards
    \/ MultihubStakeLpTokens
    \/ MultihubUnstakeLpTokens
    \/ MultihubRegisterReferrer
    \/ MultihubUpdateParameters
    \/ MultihubEmergencyPause

SpecMultihub == InitMultihub /\ [][NextMultihub]_vars

---------------------------------------------------------------------------
(* program/src/lib.rs: the staking program.  Its ProgramState and its      *)
(* StakingAccount differ in size from each other and from the records      *)
(* above, so Borsh reads each only from an account of its own kind.        *)

MaxStake == 25          \* the larger of the two amounts staked or unstaked
RewardPool == 10000     \* YOS the program's reward account starts with

staking_program_state_address == "pda:program_state"
staking_account_address(user) == "pda:staking:" \o user
(* An account of the size of a ProgramState that another program owns and  *)
(* a user filled: the runtime lets this program read it, and rejects an    *)
(* instruction of this program that changed its data.                      *)
AttackerStateKey == "attacker_state"
StakingAccountKeys ==
    {staking_program_state_address, AttackerStateKey}
        \cup {staking_account_address(u) : u \in Users}
owned_by_program(key) == key # AttackerStateKey

StakingProgramState(admin, yot_mint, yos_mint, stake_rate_per_second, harvest_threshold) ==
    [kind |-> "StakingProgramState", admin |-> admin, yot_mint |-> yot_mint,
     yos_mint |-> yos_mint, stake_rate_per_second |-> stake_rate_per_second,
     harvest_threshold |-> harvest_threshold]
StakingAccount(owner, staked_amount, start_timestamp, last_harvest_time, total_harvested) ==
    [kind |-> "StakingAccount", owner |-> owner, staked_amount |-> staked_amount,
     start_timestamp |-> start_timestamp, last_harvest_time |-> last_harvest_time,
     total_harvested |-> total_harvested]

(* lines 387-390 and 549-557: the rewards are computed in f64 and cast to  *)
(* u64.  For the rates, amounts and times of this model the product is     *)
(* below 2^53 and the cast yields the integer quotient written here.       *)
unstake_raw_rewards(staked_amount, time_staked_seconds, stake_rate_per_second) ==
    (staked_amount * time_staked_seconds * stake_rate_per_second) \div 10000
harvest_raw_rewards(staked_amount, time_staked_seconds, stake_rate_per_second) ==
    (staked_amount * time_staked_seconds * stake_rate_per_second) \div 1000000

staking_process_initialize(admin_account, admin_signs, state_key, yot_mint, yos_mint, stake_rate_per_second, harvest_threshold, cpi_ok) ==
    IF ~admin_signs THEN Err("MissingRequiredSignature", "admin")
    ELSE IF staking_program_state_address # state_key
    THEN Err("InvalidAccountData", "program state address")
    \* create_account is invoked unconditionally: it fails on an account
    \* that exists
    ELSE IF ~data_is_empty(accounts[state_key]) \/ ~cpi_ok
    THEN Err("Custom", "create_account")
    ELSE Ok(Write(state_key,
                  StakingProgramState(admin_account, yot_mint, yos_mint,
                                      stake_rate_per_second, harvest_threshold)),
            tok)

process_stake(user, user_signs, user_yot, program_yot, staking_key, state_key, amount, cpi_ok) ==
    IF ~user_signs THEN Err("MissingRequiredSignature", "user")
    ELSE IF ~try_from_slice("StakingProgramState", accounts[state_key])
    THEN Err("BorshIoError", "program state")
    ELSE IF TokenOwner(user_yot) # user
    THEN Err("InvalidAccountData", "token account owner")
    ELSE IF TokenMint(user_yot) # accounts[state_key].yot_mint
    THEN Err("InvalidAccountData", "token account mint")
    ELSE IF tok[user_yot] < amount THEN Err("InsufficientFunds", "balance")
    ELSE
    LET staking_pda == staking_account_address(user)
        old == accounts[staking_key]
        created == StakingAccount(user, amount, now, now, 0)
    IN  \* create_account names staking_pda and signs for it: the system
        \* program refuses when the account supplied is another one
        IF data_is_empty(old) /\ (staking_key # staking_pda \/ ~cpi_ok)
        THEN Err("Custom", "create_account")
        ELSE IF ~data_is_empty(old) /\ ~try_from_slice("StakingAccount", old)
        THEN Err("BorshIoError", "staking account")
        ELSE IF ~data_is_empty(old) /\ old.owner # user
        THEN Err("InvalidAccountData", "staking account owner")
        ELSE IF ~data_is_empty(old) /\ add_overflows(old.staked_amount, amount)
        THEN Err("InvalidArgument", "checked_add")
        \* lines 291 and 305 have written the staking account by now
        ELSE IF ~transfer_ok(tok, user_yot, program_yot, user, amount, cpi_ok)
        THEN Abort("Custom", "token program",
                   Write(staking_key,
                         IF data_is_empty(old) THEN created
                         ELSE [old EXCEPT !.staked_amount = @ + amount]),
                   tok)
        ELSE Ok(Write(staking_key,
                      IF data_is_empty(old) THEN created
                      ELSE [old EXCEPT !.staked_amount = @ + amount]),
                transfer(tok, user_yot, program_yot, amount))

(* lines 370-373: the check of the staked amount against the amount asked. *)
unstake_any_amount(staking_data, amount) == FALSE
unstake_insufficient_funds(staking_data, amount) == staking_data.staked_amount < amount

process_unstake(user, user_signs, user_yot, program_yot, user_yos, program_yos, staking_key, state_key, authority_key, amount, cpi_ok) ==
    IF ~user_signs THEN Err("MissingRequiredSignature", "user")
    ELSE IF find_program_authority_address # authority_key
    THEN Err("InvalidAccountData", "program authority address")
    ELSE IF ~try_from_slice("StakingAccount", accounts[staking_key])
    THEN Err("BorshIoError", "staking account")
    ELSE IF accounts[staking_key].owner # user
    THEN Err("InvalidAccountData", "staking account owner")
    ELSE IF unstake_insufficient_funds(accounts[staking_key], amount)
    THEN Err("InsufficientFunds", "staked amount")
    ELSE IF ~try_from_slice("StakingProgramState", accounts[state_key])
    THEN Err("BorshIoError", "program state")
    ELSE
    LET staking_data == accounts[staking_key]
        raw_rewards ==
            unstake_raw_rewards(staking_data.staked_amount,
                                now - staking_data.last_harvest_time,
                                accounts[state_key].stake_rate_per_second)
        saved == [staking_data EXCEPT
                     !.last_harvest_time = now,
                     !.total_harvested = IF raw_rewards > 0 THEN @ + raw_rewards ELSE @,
                     !.staked_amount = @ - amount]
        t1 == transfer(tok, program_yot, user_yot, amount)
    IN  IF raw_rewards > 0 /\ add_overflows(staking_data.total_harvested, raw_rewards)
        THEN Err("InvalidArgument", "checked_add")
        \* lines 401-403
        ELSE IF staking_data.staked_amount < amount
        THEN Err("InvalidArgument", "checked_sub")
        ELSE IF ~transfer_ok(tok, program_yot, user_yot, authority_key, amount, cpi_ok)
        THEN Err("Custom", "token program")
        ELSE IF raw_rewards = 0 THEN Ok(Write(staking_key, saved), t1)
        \* lines 447 and 485-491: the rewards are skipped, and the instruction
        \* goes on to return Ok, when the program's YOS account holds less
        ELSE IF t1[program_yos] < raw_rewards
        THEN Ok(Write(staking_key, saved), t1)
        \* lines 479-483 log the error of a refused transfer and go on; the
        \* runtime has by then failed the transaction the invocation is in
        ELSE IF ~transfer_ok(t1, program_yos, user_yos, authority_key, raw_rewards,
                             cpi_ok)
        THEN Err("Custom", "token program")
        ELSE Ok(Write(staking_key, saved),
                transfer(t1, program_yos, user_yos, raw_rewards))

process_harvest(user, user_signs, user_yos, program_yos, staking_key, state_key, authority_key, cpi_ok) ==
    IF ~user_signs THEN Err("MissingRequiredSignature", "user")
    ELSE IF find_program_authority_address # authority_key
    THEN Err("InvalidAccountData", "program authority address")
    ELSE IF ~try_from_slice("StakingAccount", accounts[staking_key])
    THEN Err("BorshIoError", "staking account")
    ELSE IF accounts[staking_key].owner # user
    THEN Err("InvalidAccountData", "staking account owner")
    ELSE IF ~try_from_slice("StakingProgramState", accounts[state_key])
    THEN Err("BorshIoError", "program state")
    ELSE
    LET staking_data == accounts[staking_key]
        raw_rewards ==
            harvest_raw_rewards(staking_data.staked_amount,
                                now - staking_data.last_harvest_time,
                                accounts[state_key].stake_rate_per_second)
    IN  IF raw_rewards < accounts[state_key].harvest_threshold
        THEN Err("InsufficientFunds", "harvest threshold")
        ELSE IF tok[program_yos] < raw_rewards
        THEN Err("InsufficientFunds", "program YOS balance")
        ELSE IF add_overflows(staking_data.total_harvested, raw_rewards)
        THEN Err("InvalidArgument", "checked_add")
        \* line 584 has written the staking account by now
        ELSE IF ~transfer_ok(tok, program_yos, user_yos, authority_key, raw_rewards,
                             cpi_ok)
        THEN Abort("Custom", "token program",
                   Write(staking_key,
                         [staking_data EXCEPT !.last_harvest_time = now,
                                              !.total_harvested = @ + raw_rewards]),
                   tok)
        ELSE Ok(Write(staking_key,
                      [staking_data EXCEPT !.last_harvest_time = now,
                                           !.total_harvested = @ + raw_rewards]),
                transfer(tok, program_yos, user_yos, raw_rewards))

staking_process_update_parameters(admin_account, admin_signs, state_key, stake_rate_per_second, harvest_threshold) ==
    IF ~admin_signs THEN Err("MissingRequiredSignature", "admin")
    ELSE IF ~try_from_slice("StakingProgramState", accounts[state_key])
    THEN Err("BorshIoError", "program state")
    ELSE IF accounts[state_key].admin # admin_account
    THEN Err("InvalidAccountData", "admin")
    ELSE
    LET updated == [accounts[state_key] EXCEPT
                       !.stake_rate_per_second = stake_rate_per_second,
                       !.harvest_threshold = harvest_threshold]
    IN  IF ~owned_by_program(state_key) /\ updated # accounts[state_key]
        THEN Err("ExternalAccountDataModified", "runtime")
        ELSE Ok(Write(state_key, updated), tok)

StakeAmounts == {10, MaxStake}
StakeRates == {1, 10}
HarvestThresholds == {0, 100}
StakingFlaws == {"none", "unsigned", "state key", "ledger key", "cpi"}
StakingStateKey(flaw) ==
    IF flaw = "state key" THEN AttackerStateKey ELSE staking_program_state_address
StakingKey(user, flaw) ==
    staking_account_address(IF flaw = "ledger key" THEN Other(user) ELSE user)

StakingInitialize ==
    \E admin_account \in {"admin", "bob"}, rate \in StakeRates,
       threshold \in HarvestThresholds, flaw \in StakingFlaws \ {"ledger key"} :
        /\ Commit(MaxOps,
                  Instruction("Initialize", admin_account, admin_account,
                              StakingStateKey(flaw), 0),
                  staking_process_initialize(admin_account, flaw # "unsigned",
                                             StakingStateKey(flaw), YOT_MINT, YOS_MINT,
                                             rate, threshold, flaw # "cpi"))
        /\ UNCHANGED claimed

Stake ==
    \E user \in Users, amount \in StakeAmounts, flaw \in StakingFlaws :
        /\ Commit(MaxOps,
                  Instruction("Stake", user, user, StakingStateKey(flaw), amount),
                  process_stake(user, flaw # "unsigned", Yot(user), "vault_yot",
                                StakingKey(user, flaw), StakingStateKey(flaw), amount,
                                flaw # "cpi"))
        /\ UNCHANGED claimed

Unstake ==
    \E user \in Users, amount \in StakeAmounts, flaw \in StakingFlaws :
        /\ Commit(MaxOps,
                  Instruction("Unstake", user, user, StakingStateKey(flaw), amount),
                  process_unstake(user, flaw # "unsigned", Yot(user), "vault_yot",
                                  Yos(user), "program_yos", StakingKey(user, flaw),
                                  StakingStateKey(flaw), find_program_authority_address,
                                  amount, flaw # "cpi"))
        /\ UNCHANGED claimed

Harvest ==
    \E user \in Users, flaw \in StakingFlaws :
        /\ Commit(MaxOps, Instruction("Harvest", user, user, StakingStateKey(flaw), 0),
                  process_harvest(user, flaw # "unsigned", Yos(user), "program_yos",
                                  StakingKey(user, flaw), StakingStateKey(flaw),
                                  find_program_authority_address, flaw # "cpi"))
        /\ UNCHANGED claimed

StakingUpdateParameters ==
    \E admin_account \in {"admin", "bob"}, rate \in StakeRates,
       threshold \in HarvestThresholds, flaw \in {"none", "unsigned", "state key"} :
        /\ Commit(MaxOps,
                  Instruction("UpdateParameters", admin_account, admin_account,
                              StakingStateKey(flaw), 0),
                  staking_process_update_parameters(admin_account, flaw # "unsigned",
                                                    StakingStateKey(flaw), rate,
                                                    threshold))
        /\ UNCHANGED claimed

(* Before Initialize no account of the program exists.  The account a user *)
(* filled holds a state that names that user as admin.                     *)
InitStaking ==
    /\ accounts = [k \in StakingAccountKeys |->
                      IF k = AttackerStateKey
                      THEN StakingProgramState("bob", YOT_MINT, YOS_MINT, 10, 0)
                      ELSE EmptyData]
    /\ tok = [InitTokens EXCEPT !["program_yos"] = RewardPool]
    /\ now = StartTime
    /\ overflow_checks \in BOOLEAN
    /\ last = NoInstruction
    /\ ops = 0
    /\ claimed = <<>>

NextStaking ==
    \/ StakingInitialize
    \/ Stake
    \/ Unstake
    \/ Harvest
    \/ StakingUpdateParameters
    \/ Tick

SpecStaking == InitStaking /\ [][NextStaking]_vars

---------------------------------------------------------------------------
(* Properties of program/src/multi_hub_swap.rs, checked under Spec.        *)

UserYosAccounts == {Yos(u) : u \in Users}

(* C1: for a ledger with contributed_amount > 0 and its owner as caller, a *)
(* claim at now = last_claim_time + 604800 - 1 is rejected as too early    *)
(* and leaves accounts and balances as they were; a claim at               *)
(* now = last_claim_time + 604800 succeeds whenever the token program      *)
(* accepts the mint, and stamps the ledger with now.                       *)
C1_CooldownBoundary ==
    \A user_key \in Users, user_yos \in UserYosAccounts, cpi_ok \in BOOLEAN :
        LET liq_key == find_liquidity_contribution_address(user_key)
            c == accounts[liq_key]
            r == process_claim_weekly_reward(TRUE, user_key, liq_key, YOS_MINT,
                                             user_yos, cpi_ok)
        IN  (try_from_slice("LiquidityContribution", c) /\ c.contributed_amount > 0) =>
                /\ now = c.last_claim_time + 604800 - 1 =>
                       /\ r.err = "InvalidArgument" /\ r.why = "TooEarly"
                       /\ After(r) = [accounts |-> accounts, tok |-> tok]
                /\ now = c.last_claim_time + 604800 =>
                       /\ r.why # "TooEarly"
                       /\ mint_to_ok(tok, YOS_MINT, user_yos,
                                     find_program_authority_address,
                                     weekly_reward(c.contributed_amount).value, cpi_ok)
                              => /\ r.err = "Ok"
                                 /\ After(r).accounts[liq_key].last_claim_time = now

(* A first claim by the owner has just been committed exactly 604800       *)
(* seconds after the contribution started the cooldown.                    *)
C1_Witness ==
    \E u \in Users :
        LET c == accounts[find_liquidity_contribution_address(u)]
        IN  /\ last.op = "ClaimWeeklyReward" /\ last.signer = u /\ last.user = u
            /\ try_from_slice("LiquidityContribution", c)
            /\ claimed[find_liquidity_contribution_address(u)] = <<now>>
            /\ c.last_claim_time = now
            /\ c.start_timestamp + 604800 = now
            /\ c.total_claimed_yos > 0

---------------------------------------------------------------------------
(* Properties of the other revisions.                                      *)

(* C3: a committed claim was signed by the owner of the ledger it claimed  *)
(* on; a claim by any other caller is rejected and pays nothing.           *)
C3_ClaimByOwnerOnly ==
    last.op = "ClaimWeeklyReward" =>
        last.signer = accounts[find_liquidity_contribution_address(last.user)].user

(* C4: the components a committed BuyAndDistribute computed add up to the  *)
(* amount, the user's component being what the others leave.               *)
C4_SplitExact ==
    last.op = "BuyAndDistribute" =>
        LET d == manual_distribution(last.amount)
        IN  /\ d.user_portion + d.liquidity_portion + d.yos_cashback = last.amount
            /\ d.user_portion = last.amount - d.liquidity_portion - d.yos_cashback

(* C5: two successful claims on the same ledger are at least 604800        *)
(* seconds apart, whatever was bought, withdrawn or updated in between.    *)
C5_ClaimsAWeekApart ==
    \A k \in DOMAIN claimed :
        \A i \in 1 .. Len(claimed[k]) - 1 :
            claimed[k][i + 1] - claimed[k][i] >= 604800

(* C6: a WithdrawContribution that returns Ok leaves contributed_amount 0  *)
(* and total_claimed_yos and start_timestamp as they were.                 *)
C6_WithdrawKeepsHistory ==
    \A user \in Users :
        LET liq_key == archive_find_liquidity_contribution_address(user)
            r == archive_process_withdraw_contribution(user, TRUE, liq_key,
                                                       "liquidity_yot", Yot(user), TRUE)
        IN  r.err = "Ok" =>
                /\ r.accounts[liq_key].contributed_amount = 0
                /\ r.accounts[liq_key].total_claimed_yos =
                       accounts[liq_key].total_claimed_yos
                /\ r.accounts[liq_key].start_timestamp =
                       accounts[liq_key].start_timestamp

(* C7: an Initialize invoked while a ProgramState is stored at the derived *)
(* address leaves the stored admin, mints and rates as they were.          *)
C7_InitializeOnce ==
    \A payer \in {"admin", "bob"}, rates \in RateSets :
        LET r == process_initialize(TRUE, find_program_state_address,
                                    find_program_authority_address, payer,
                                    YOT_MINT, YOS_MINT, rates, TRUE)
        IN  try_from_slice("ProgramState", accounts[find_program_state_address]) =>
                After(r).accounts[find_program_state_address] =
                    accounts[find_program_state_address]

(* C8: while a ProgramState is stored, an instruction of a caller other    *)
(* than its admin that would update, close or rewrite it fails and leaves  *)
(* it as it was.                                                           *)
C8_StateChangedByAdminOnly ==
    \A caller \in {"admin", "bob"}, rates \in RateSets :
        LET s == accounts[find_program_state_address]
            update == process_update_parameters(caller, TRUE,
                                                find_program_state_address, rates)
            close == process_close_program(caller, TRUE, find_program_state_address)
            rewrite == process_initialize(TRUE, find_program_state_address,
                                          find_program_authority_address, caller,
                                          YOT_MINT, YOS_MINT, rates, TRUE)
        IN  (try_from_slice("ProgramState", s) /\ s.admin # caller) =>
                /\ update.err # "Ok" /\ close.err # "Ok" /\ rewrite.err # "Ok"
                /\ After(update).accounts[find_program_state_address] = s
                /\ After(close).accounts[find_program_state_address] = s
                /\ After(rewrite).accounts[find_program_state_address] = s

(* C9: a Stake that names, as the program state, an account other than the *)
(* one at the derived address is rejected (with InvalidAccountData) and    *)
(* changes no account and no balance.                                      *)
C9_AddressRederived ==
    \A user \in Users, amount \in StakeAmounts,
       state_key \in StakingAccountKeys \ {staking_program_state_address} :
        LET r == process_stake(user, TRUE, Yot(user), "vault_yot",
                               staking_account_address(user), state_key, amount, TRUE)
        IN  /\ r.err # "Ok"
            /\ After(r) = [accounts |-> accounts, tok |-> tok]

(* C10: an Unstake that returns Ok with rewards due has paid them: the     *)
(* rewards are in the user's YOS account and out of the program's.  When   *)
(* the program's YOS account holds less than the rewards the Unstake       *)
(* fails and changes nothing.                                              *)
C10_UnstakeAllOrNothing ==
    \A user \in Users, amount \in StakeAmounts :
        LET staking_key == staking_account_address(user)
            r == process_unstake(user, TRUE, Yot(user), "vault_yot", Yos(user),
                                 "program_yos", staking_key,
                                 staking_program_state_address,
                                 find_program_authority_address, amount, TRUE)
            paid == r.accounts[staking_key].total_harvested
                        - accounts[staking_key].total_harvested
        IN  r.err = "Ok" =>
                /\ r.tok[Yos(user)] = tok[Yos(user)] + paid
                /\ r.tok["program_yos"] = tok["program_yos"] - paid

---------------------------------------------------------------------------
(* Properties of claims.                                                   *)

(* C12: a claim on a ledger whose contributed_amount is 0 is rejected as   *)
(* having nothing to claim, however long ago the last claim was, and pays  *)
(* and changes nothing.                                                    *)
C12_ZeroLedgerEarnsNothing ==
    \A user_key \in Users, user_yos \in UserYosAccounts, cpi_ok \in BOOLEAN :
        LET liq_key == find_liquidity_contribution_address(user_key)
            c == accounts[liq_key]
            r == process_claim_weekly_reward(TRUE, user_key, liq_key, YOS_MINT,
                                             user_yos, cpi_ok)
        IN  (try_from_slice("LiquidityContribution", c) /\ c.contributed_amount = 0) =>
                /\ r.err = "InvalidArgument" /\ r.why = "NothingToClaim"
                /\ After(r) = [accounts |-> accounts, tok |-> tok]

(* A withdrawal has left a ledger with contributed_amount 0, and a whole   *)
(* cooldown period has passed since its last claim time.                   *)
C12_Witness ==
    \E u \in Users :
        LET c == accounts[find_liquidity_contribution_address(u)]
        IN  /\ last.op = "WithdrawContribution" /\ last.user = u
            /\ try_from_slice("LiquidityContribution", c)
            /\ c.contributed_amount = 0
            /\ now - c.last_claim_time >= 604800

(* C13: a claim that returns Ok stores last_claim_time = now and adds to   *)
(* total_claimed_yos exactly the amount that reached the account paid.     *)
C13_ClaimRecordsPayout ==
    \A user_key \in Users, user_yos \in UserYosAccounts, cpi_ok \in BOOLEAN :
        LET liq_key == find_liquidity_contribution_address(user_key)
            r == process_claim_weekly_reward(TRUE, user_key, liq_key, YOS_MINT,
                                             user_yos, cpi_ok)
        IN  r.err = "Ok" =>
                /\ r.accounts[liq_key].last_claim_time = now
                /\ r.accounts[liq_key].total_claimed_yos
                       - accounts[liq_key].total_claimed_yos
                   = r.tok[user_yos] - tok[user_yos]

(* The first claim on a ledger has been committed later than the ledger    *)
(* was created: the ledger carries the time of the claim and its reward.   *)
C13_Witness ==
    \E u \in Users :
        LET k == find_liquidity_contribution_address(u)
        IN  /\ last.op = "ClaimWeeklyReward" /\ last.user = u
            /\ claimed[k] = <<now>>
            /\ try_from_slice("LiquidityContribution", accounts[k])
            /\ accounts[k].last_claim_time = now
            /\ accounts[k].start_timestamp < now
            /\ accounts[k].total_claimed_yos > 0
            /\ tok[last.to] >= accounts[k].total_claimed_yos

(* C14: a claim that returns Ok pays contributed_amount * 192 / 10000,     *)
(* rounded down: 3840 for a contributed_amount of 200000.                  *)
C14_RewardIs192Bps ==
    \A user \in Users, user_yos \in UserYosAccounts :
        LET liq_key == find_liquidity_contribution_address(user)
            r == process_claim_rewards(TRUE, user, liq_key, YOS_MINT, user_yos, TRUE)
        IN  r.err = "Ok" =>
                r.tok[user_yos] - tok[user_yos]
                    = (accounts[liq_key].contributed_amount * 192) \div 10000

---------------------------------------------------------------------------
(* Properties of the ledger's fields.                                      *)

(* C15: on an existing ledger whose user is not the caller, a withdrawal   *)
(* by the caller is rejected with InvalidAccountData and a                 *)
(* BuyAndDistribute by the caller, which would add a contribution, is      *)
(* rejected; both leave accounts and balances as they were.                *)
C15_LedgerOfOwnerOnly ==
    \A caller \in Users, liq_key \in LedgerKeys, amount \in Amounts :
        LET withdraw == process_withdraw_contribution(caller, TRUE, liq_key,
                                                      "liquidity_yot", Yot(caller), TRUE)
            contribute == process_buy_and_distribute(caller, TRUE, Yot(caller),
                                                     Yot(caller), "liquidity_yot",
                                                     YOS_MINT, Yos(caller), liq_key,
                                                     find_program_state_address,
                                                     amount, TRUE)
        IN  (/\ try_from_slice("LiquidityContribution", accounts[liq_key])
             /\ accounts[liq_key].user # caller) =>
                /\ withdraw.err = "InvalidAccountData"
                /\ contribute.err # "Ok"
                /\ After(withdraw) = [accounts |-> accounts, tok |-> tok]
                /\ After(contribute) = [accounts |-> accounts, tok |-> tok]

(* A user has just contributed: a withdrawal from that ledger succeeds for *)
(* the user and is rejected for the other user.                            *)
C15_Witness ==
    \E u \in Users :
        LET k == find_liquidity_contribution_address(u)
        IN  /\ last.op = "BuyAndDistribute" /\ last.user = u
            /\ try_from_slice("LiquidityContribution", accounts[k])
            /\ accounts[k].user = u
            /\ accounts[k].contributed_amount > 0
            /\ process_withdraw_contribution(u, TRUE, k, "liquidity_yot", Yot(u),
                                             TRUE).err = "Ok"
            /\ process_withdraw_contribution(Other(u), TRUE, k, "liquidity_yot",
                                             Yot(Other(u)), TRUE).err
                   = "InvalidAccountData"

(* C16: no BuyAndDistribute, ClaimWeeklyReward or WithdrawContribution     *)
(* that returns Ok changes the start_timestamp of a ledger that existed    *)
(* before it.                                                              *)
C16_StartTimestampFixed ==
    LET Kept(r) ==
            r.err = "Ok" =>
                \A k \in ArchiveLedgerKeys :
                    try_from_slice("LiquidityContribution", accounts[k]) =>
                        r.accounts[k].start_timestamp = accounts[k].start_timestamp
    IN  /\ \A user \in Users, amount \in Amounts :
               Kept(archive_process_buy_and_distribute(
                        user, TRUE, "vault_yot", Yot(user), "liquidity_yot", YOS_MINT,
                        Yos(user), archive_find_liquidity_contribution_address(user),
                        find_program_state_address, amount, TRUE))
        /\ \A caller \in Users, user_key \in Users :
               Kept(archive_process_claim_weekly_reward(
                        TRUE, user_key, archive_find_liquidity_contribution_address(user_key),
                        YOS_MINT, Yos(caller), TRUE))
        /\ \A user \in Users :
               Kept(archive_process_withdraw_contribution(
                        user, TRUE, archive_find_liquidity_contribution_address(user),
                        "liquidity_yot", Yot(user), TRUE))

(* C17: no BuyAndDistribute, ClaimWeeklyReward or WithdrawContribution     *)
(* that returns Ok, by any caller on any ledger, leaves the                *)
(* total_claimed_yos of an existing ledger smaller than it was.            *)
C17_TotalClaimedNeverDecreases ==
    LET Kept(r) ==
            r.err = "Ok" =>
                \A k \in LedgerKeys :
                    try_from_slice("LiquidityContribution", accounts[k]) =>
                        r.accounts[k].total_claimed_yos >= accounts[k].total_claimed_yos
    IN  /\ \A user \in Users, liq_key \in LedgerKeys, amount \in Amounts :
               Kept(process_buy_and_distribute(
                        user, TRUE, "vault_yot", Yot(user), "liquidity_yot", YOS_MINT,
                        Yos(user), liq_key, find_program_state_address, amount, TRUE))
        /\ \A caller \in Users, user_key \in Users, liq_key \in LedgerKeys :
               Kept(process_claim_weekly_reward(TRUE, user_key, liq_key, YOS_MINT,
                                                Yos(caller), TRUE))
        /\ \A user \in Users, liq_key \in LedgerKeys :
               Kept(process_withdraw_contribution(user, TRUE, liq_key, "liquidity_yot",
                                                  Yot(user), TRUE))

(* A claim has been paid on a ledger, and a withdrawal from that ledger    *)
(* returns Ok.                                                             *)
C17_Witness ==
    \E u \in Users :
        LET k == find_liquidity_contribution_address(u)
        IN  /\ last.op = "ClaimWeeklyReward" /\ last.user = u
            /\ try_from_slice("LiquidityContribution", accounts[k])
            /\ accounts[k].total_claimed_yos > 0
            /\ process_withdraw_contribution(u, TRUE, k, "liquidity_yot", Yot(u),
                                             TRUE).err = "Ok"

(* C18: no BuyAndDistribute, ClaimWeeklyReward or WithdrawContribution     *)
(* that returns Ok, by any caller on any ledger, changes the user stored   *)
(* in an existing ledger.                                                  *)
C18_LedgerUserFixed ==
    LET Kept(r) ==
            r.err = "Ok" =>
                \A k \in LedgerKeys :
                    try_from_slice("LiquidityContribution", accounts[k]) =>
                        r.accounts[k].user = accounts[k].user
    IN  /\ \A user \in Users, liq_key \in LedgerKeys, amount \in Amounts :
               Kept(process_buy_and_distribute(
                        user, TRUE, "vault_yot", Yot(user), "liquidity_yot", YOS_MINT,
                        Yos(user), liq_key, find_program_state_address, amount, TRUE))
        /\ \A caller \in Users, user_key \in Users, liq_key \in LedgerKeys :
               Kept(process_claim_weekly_reward(TRUE, user_key, liq_key, YOS_MINT,
                                                Yos(caller), TRUE))
        /\ \A user \in Users, liq_key \in LedgerKeys :
               Kept(process_withdraw_contribution(user, TRUE, liq_key, "liquidity_yot",
                                                  Yot(user), TRUE))

(* A user's second BuyAndDistribute has been committed on the ledger the   *)
(* first one created, and a withdrawal from it returns Ok.                 *)
C18_Witness ==
    \E u \in Users :
        LET k == find_liquidity_contribution_address(u)
            s == accounts[find_program_state_address]
        IN  /\ last.op = "BuyAndDistribute" /\ last.user = u
            /\ try_from_slice("ProgramState", s)
            /\ try_from_slice("LiquidityContribution", accounts[k])
            /\ accounts[k].user = u
            /\ accounts[k].contributed_amount > 0
            /\ accounts[k].contributed_amount =
                   2 * distribution(last.amount, s.lp_contribution_rate,
                                    s.yos_cashback_rate).liquidity_amount
            /\ process_withdraw_contribution(u, TRUE, k, "liquidity_yot", Yot(u),
                                             TRUE).err = "Ok"

(* C19: a stored ProgramState has lp_contribution_rate at most 5000, each  *)
(* of the other four rates at most 1000, and the five rates sum to at most *)
(* 10000 basis points.                                                     *)
C19_RatesWithinMaxima ==
    LET s == accounts[find_program_state_address]
    IN  try_from_slice("ProgramState", s) =>
            /\ s.lp_contribution_rate <= 5000
            /\ s.admin_fee_rate <= 1000
            /\ s.yos_cashback_rate <= 1000
            /\ s.swap_fee_rate <= 1000
            /\ s.referral_rate <= 1000
            /\ s.lp_contribution_rate + s.admin_fee_rate + s.yos_cashback_rate
                   + s.swap_fee_rate + s.referral_rate <= BASIS_POINTS

---------------------------------------------------------------------------
(* Properties of program/src/multi_hub_swap_token_fix.rs, checked under    *)
(* SpecTokenFix.                                                           *)

(* C20: a BuyAndDistribute that returns Ok credits the ledger with the     *)
(* share of the amount given by the lp_contribution_rate stored in         *)
(* ProgramState at that time, and mints the share given by the stored      *)
(* yos_cashback_rate, also after an UpdateParameters has changed them.     *)
C20_SplitFromStoredRates ==
    \A user \in Users, amount \in Amounts :
        LET s == accounts[find_program_state_address]
            liq_key == token_fix_find_liquidity_contribution_address(user)
            r == token_fix_process_buy_and_distribute(
                     user, TRUE, "vault_yot", Yot(user), YOS_MINT, Yos(user), liq_key,
                     find_program_state_address, amount, TRUE)
            before == IF data_is_empty(accounts[liq_key]) THEN 0
                      ELSE accounts[liq_key].contributed_amount
        IN  r.err = "Ok" =>
                /\ r.accounts[liq_key].contributed_amount - before =
                       (amount * s.lp_contribution_rate) \div 100
                /\ r.tok[Yos(user)] - tok[Yos(user)] =
                       (amount * s.yos_cashback_rate) \div 100

---------------------------------------------------------------------------
(* Properties of Contribute and of the amounts a ledger records.           *)

(* C21: a Contribute that returns Ok for a user whose ledger does not      *)
(* exist leaves a ledger of that user with start_timestamp and             *)
(* last_claim_time equal to the current time and contributed_amount equal  *)
(* to the amount of the instruction.                                       *)
C21_ContributeCreatesLedger ==
    \A user \in Users, amount \in Amounts :
        LET liq_key == find_liquidity_contribution_address(user)
            r == manual_process_contribute(user, amount)
        IN  (r.err = "Ok" /\ data_is_empty(accounts[liq_key])) =>
                /\ try_from_slice("LiquidityContribution", r.accounts[liq_key])
                /\ r.accounts[liq_key].user = user
                /\ r.accounts[liq_key].start_timestamp = now
                /\ r.accounts[liq_key].last_claim_time = now
                /\ r.accounts[liq_key].contributed_amount = amount

(* C22: a Contribute whose amount added to the contributed_amount of the   *)
(* ledger exceeds the largest u64 does not return Ok, and the ledger stays  *)
(* as it was.                                                              *)
C22_ContributionSumChecked ==
    \A user \in Users, amount \in ContributeAmounts, liquidity_token \in TokenAccounts :
        LET liq_key == find_liquidity_contribution_address(user)
            unpacked == LiquidityContribution_unpack(accounts[liq_key])
            r == complete_process_contribute(user, TRUE, Yot(user), liquidity_token,
                                             liq_key, amount, TRUE)
        IN  (/\ unpacked.err = "Ok"
             /\ add_overflows(unpacked.value.contributed_amount, amount)) =>
                /\ r.err # "Ok"
                /\ After(r).accounts[liq_key] = accounts[liq_key]

(* C23: a withdrawal from a ledger whose contributed_amount is 0 does not  *)
(* return Ok, and accounts and balances stay as they were.                 *)
C23_NothingToWithdraw ==
    \A user \in Users :
        LET liq_key == find_liquidity_contribution_address(user)
            r == manual_process_withdraw_liquidity(user)
        IN  (/\ try_from_slice("LiquidityContribution", accounts[liq_key])
             /\ accounts[liq_key].contributed_amount = 0) =>
                /\ r.err # "Ok"
                /\ After(r) = [accounts |-> accounts, tok |-> tok]

(* C24: a BuyAndDistribute that returns Ok does not raise the YOT balance  *)
(* of the user, and the YOT held by the program (vault and liquidity       *)
(* account) grows by at least the amount credited to the ledger: the user  *)
(* pays in, and no token of the vault goes to a user who deposited none.   *)
C24_UserPaysIn ==
    \A user \in Users, amount \in Amounts :
        LET liq_key == archive_find_liquidity_contribution_address(user)
            r == archive_process_buy_and_distribute(
                     user, TRUE, "vault_yot", Yot(user), "liquidity_yot", YOS_MINT,
                     Yos(user), liq_key, find_program_state_address, amount, TRUE)
            before == IF data_is_empty(accounts[liq_key]) THEN 0
                      ELSE accounts[liq_key].contributed_amount
        IN  r.err = "Ok" =>
                /\ r.tok[Yot(user)] <= tok[Yot(user)]
                /\ r.tok["vault_yot"] + r.tok["liquidity_yot"] >=
                       tok["vault_yot"] + tok["liquidity_yot"]
                           + (r.accounts[liq_key].contributed_amount - before)

(* C25: with the stored rates 2000, 10, 500, 30 and 50 basis points a      *)
(* BuyAndDistribute of 1000000 splits into 750000 for the user, 200000 of  *)
(* liquidity and 50000 of cashback; when it returns Ok the ledger's        *)
(* contributed_amount has grown by 200000 (to 200000 on a new ledger), the *)
(* liquidity account has received 200000 and 50000 YOS were minted.        *)
C25_DefaultSplit ==
    \A user \in Users :
        LET s == accounts[find_program_state_address]
            liq_key == find_liquidity_contribution_address(user)
            d == distribution(1000000, DefaultRates.lp, DefaultRates.cashback)
            r == process_buy_and_distribute(
                     user, TRUE, Yot(user), Yot(user), "liquidity_yot", YOS_MINT,
                     Yos(user), liq_key, find_program_state_address, 1000000, TRUE)
            before == IF data_is_empty(accounts[liq_key]) THEN 0
                      ELSE accounts[liq_key].contributed_amount
        IN  /\ d.user_amount = 750000
            /\ d.liquidity_amount = 200000
            /\ d.cashback_amount = 50000
            /\ (/\ try_from_slice("ProgramState", s)
                /\ s.lp_contribution_rate = DefaultRates.lp
                /\ s.admin_fee_rate = DefaultRates.fee
                /\ s.yos_cashback_rate = DefaultRates.cashback
                /\ s.swap_fee_rate = DefaultRates.swap
                /\ s.referral_rate = DefaultRates.referral
                /\ r.err = "Ok") =>
                   /\ r.accounts[liq_key].contributed_amount = before + 200000
                   /\ r.tok["liquidity_yot"] = tok["liquidity_yot"] + 200000
                   /\ r.tok[Yos(user)] = tok[Yos(user)] + 50000
                   /\ r.tok[Yot(user)] = tok[Yot(user)] - 200000

(* A BuyAndDistribute of 1000000 has been committed on a new ledger under  *)
(* the default rates.                                                      *)
C25_Witness ==
    \E user \in Users :
        LET s == accounts[find_program_state_address]
            liq_key == find_liquidity_contribution_address(user)
        IN  /\ last.op = "BuyAndDistribute" /\ last.user = user
            /\ last.amount = 1000000
            /\ try_from_slice("ProgramState", s)
            /\ s.lp_contribution_rate = 2000 /\ s.yos_cashback_rate = 500
            /\ try_from_slice("LiquidityContribution", accounts[liq_key])
            /\ accounts[liq_key].contributed_amount = 200000
            /\ accounts[liq_key].start_timestamp = now
            /\ tok["liquidity_yot"] = 200000
            /\ tok[Yos(user)] = 50000

(* C29: a BuyAndDistribute whose amount times a stored rate leaves the     *)
(* range of u64 does not succeed: no split is computed from a wrapped      *)
(* product.                                                                *)
C29_SplitOverflowRefused ==
    \A user \in Users, amount \in Amounts, source \in BOOLEAN :
        LET s == accounts[find_program_state_address]
            vault_yot == IF source THEN "vault_yot" ELSE Yot(user)
            r == process_buy_and_distribute(
                     user, TRUE, vault_yot, Yot(user), "liquidity_yot", YOS_MINT,
                     Yos(user), find_liquidity_contribution_address(user),
                     find_program_state_address, amount, TRUE)
        IN  (/\ try_from_slice("ProgramState", s)
             /\ \/ mul_overflows(amount, s.lp_contribution_rate)
                \/ mul_overflows(amount, s.yos_cashback_rate)) => r.err # "Ok"

(* C30: the first byte of the instruction data selects the operation: 0    *)
(* Initialize, 1 Swap, 2 Contribute, 3 ClaimWeeklyReward, 4                *)
(* BuyAndDistribute, 5 WithdrawContribution, 6 UpdateParameters; so the    *)
(* operation of the last committed instruction sits in the table at the    *)
(* byte that selected it.                                                  *)
C30_DiscriminatorTable ==
    LET table == <<"Initialize", "Swap", "Contribute", "ClaimWeeklyReward",
                   "BuyAndDistribute", "WithdrawContribution", "UpdateParameters">>
    IN  \A byte \in 0 .. 6 :
            process_instruction(<<byte>>) = last.op => table[byte + 1] = last.op

(* C31: the split of a zero amount is zero in every component under any    *)
(* stored rates, and a BuyAndDistribute of zero on an initialized program  *)
(* returns Ok, moves no token and leaves contributed_amount as it was (0   *)
(* on a ledger it creates).                                                *)
C31_ZeroAmountSplit ==
    \A user \in Users, source \in BOOLEAN :
        LET s == accounts[find_program_state_address]
            liq_key == find_liquidity_contribution_address(user)
            d == distribution(0, s.lp_contribution_rate, s.yos_cashback_rate)
            r == process_buy_and_distribute(
                     user, TRUE, IF source THEN "vault_yot" ELSE Yot(user), Yot(user),
                     "liquidity_yot", s.yos_mint, Yos(user), liq_key,
                     find_program_state_address, 0, TRUE)
            before == IF data_is_empty(accounts[liq_key]) THEN 0
                      ELSE accounts[liq_key].contributed_amount
        IN  try_from_slice("ProgramState", s) =>
                /\ d.user_amount = 0 /\ d.liquidity_amount = 0 /\ d.cashback_amount = 0
                /\ ~d.overflow
                /\ r.err = "Ok"
                /\ r.tok = tok
                /\ r.accounts[liq_key].contributed_amount = before
                /\ \A k \in DOMAIN accounts \ {liq_key} : r.accounts[k] = accounts[k]

(* A BuyAndDistribute of zero has been committed on a ledger that holds a  *)
(* contribution.                                                           *)
C31_Witness ==
    /\ last.op = "BuyAndDistribute"
    /\ last.amount = 0
    /\ try_from_slice("LiquidityContribution",
                      accounts[find_liquidity_contribution_address(last.user)])
    /\ accounts[find_liquidity_contribution_address(last.user)].contributed_amount > 0

(* C36: a claim on a ledger whose contributed_amount is 0, made before the *)
(* cooldown has elapsed, is refused for the missing contribution and not   *)
(* for the cooldown.                                                       *)
C36_ZeroBeforeCooldown ==
    \A user \in Users :
        LET liq_key == find_liquidity_contribution_address(user)
            c == accounts[liq_key]
            r == no_borsh_process_claim_weekly_reward(user, TRUE, Yos(user),
                                                      "program_yos", liq_key, TRUE)
        IN  (/\ no_borsh_from_bytes("LiquidityContribution", c)
             /\ c.user = user
             /\ c.contributed_amount = 0
             /\ now - c.last_claim_time < 604800) => r.why = "NothingToClaim"

---------------------------------------------------------------------------
(* Properties of the byte layout of multi_hub_swap_complete.rs, checked    *)
(* under SpecComplete.                                                     *)

(* C26: unpacking the bytes pack wrote gives back the record, field for    *)
(* field, for every ProgramState and every LiquidityContribution of the    *)
(* sets below, whatever the destination buffer held before.                *)
C26_UnpackOfPack ==
    /\ \A admin \in {"admin", "bob"}, rates \in PercentRateSets,
          liquidity_wallet \in {"wallet", DefaultPubkey} :
           LET liquidity_threshold == IF liquidity_wallet = "wallet"
                                      THEN DEFAULT_LIQUIDITY_THRESHOLD ELSE U64_MAX
               x == CompleteProgramState(admin, YOT_MINT, YOS_MINT, rates,
                                         liquidity_wallet, liquidity_threshold)
               dst == IF Len(accounts[find_program_state_address]) >= PROGRAM_STATE_LEN
                      THEN accounts[find_program_state_address]
                      ELSE zeroed(PROGRAM_STATE_LEN)
               packed == ProgramState_pack(x, dst)
           IN  /\ packed.err = "Ok"
               /\ Len(packed.data) = Len(dst)
               /\ ProgramState_unpack(packed.data) = Unpacked(x)
    /\ \A user \in Users, contributed_amount \in {1000000, U64_MAX},
          total_claimed_yos \in {0, 3840} :
           LET liq_key == find_liquidity_contribution_address(user)
               x == LiquidityContribution(user, contributed_amount, now,
                                          now + COOLDOWN_SECONDS, total_claimed_yos)
               dst == IF accounts[liq_key] = <<>>
                      THEN zeroed(LIQUIDITY_CONTRIBUTION_LEN) ELSE accounts[liq_key]
               packed == LiquidityContribution_pack(x, dst)
           IN  /\ packed.err = "Ok"
               /\ Len(packed.data) = Len(dst)
               /\ LiquidityContribution_unpack(packed.data) = Unpacked(x)

(* A Contribute has written a ledger: the account holds the 64 bytes of    *)
(* the record, and unpacking them gives the record.                        *)
C26_Witness ==
    \E user \in Users :
        LET liq_key == find_liquidity_contribution_address(user)
            x == LiquidityContribution(user, last.amount, now, now, 0)
        IN  /\ last.op = "Contribute" /\ last.user = user /\ last.amount > 0
            /\ Len(accounts[liq_key]) = LIQUIDITY_CONTRIBUTION_LEN
            /\ accounts[liq_key] =
                   LiquidityContribution_pack(x, zeroed(LIQUIDITY_CONTRIBUTION_LEN)).data
            /\ LiquidityContribution_unpack(accounts[liq_key]) = Unpacked(x)
            /\ Len(accounts[find_program_state_address]) = PROGRAM_STATE_LEN
            /\ ProgramState_unpack(accounts[find_program_state_address]).value.admin
                   \in {"admin", "bob"}

(* C27: unpacking the 136 bytes the earlier revision serialized returns Ok *)
(* with the eight fields that were serialized, liquidity_wallet equal to   *)
(* Pubkey::default() and liquidity_threshold equal to 100000000; so does   *)
(* unpacking a state account of 136 bytes.                                 *)
C27_OldLayoutUnpacked ==
    /\ \A admin \in {"admin", "bob"}, rates \in PercentRateSets :
           LET x == CompleteProgramState(admin, YOT_MINT, YOS_MINT, rates, "wallet", 7)
               old == ProgramState_serialize(x, zeroed(OLD_PROGRAM_STATE_LEN))
           IN  /\ old.err = "Ok"
               /\ Len(old.data) = 136
               /\ ProgramState_unpack(old.data) =
                      Unpacked(CompleteProgramState(admin, YOT_MINT, YOS_MINT, rates,
                                                    DefaultPubkey, 100000000))
    /\ LET data == accounts[find_program_state_address]
           unpacked == ProgramState_unpack(data)
       IN  Len(data) = 136 =>
               /\ unpacked.err = "Ok"
               /\ unpacked.value.liquidity_wallet = DefaultPubkey
               /\ unpacked.value.liquidity_threshold = 100000000
               /\ ProgramState_serialize(unpacked.value, data).data = data

(* The state account holds 136 bytes after an instruction was committed:   *)
(* an UpdateParameters signed by another key than the admin is refused     *)
(* for the admin it unpacked.                                              *)
C27_Witness ==
    /\ ops > 0
    /\ Len(accounts[find_program_state_address]) = 136
    /\ ProgramState_unpack(accounts[find_program_state_address]) =
           Unpacked(CompleteProgramState("admin", YOT_MINT, YOS_MINT, PercentRates,
                                         DefaultPubkey, 100000000))
    /\ complete_process_update_parameters("bob", TRUE, find_program_state_address,
                                          PercentRates).why = "admin"

(* C28: pack returns an error and no bytes for a destination shorter than  *)
(* the record (176 for ProgramState, 64 for LiquidityContribution), and    *)
(* unpack returns an error and no record for a buffer shorter than 136     *)
(* (ProgramState) or 64 (LiquidityContribution); an instruction that       *)
(* meets such a buffer writes nothing.                                     *)
C28_ShortBufferRefused ==
    /\ \A n \in {0, 63, 64, 135, 136, 175} :
           LET state == CompleteProgramState("admin", YOT_MINT, YOS_MINT, PercentRates,
                                             "wallet", DEFAULT_LIQUIDITY_THRESHOLD)
               contribution == LiquidityContribution("alice", 1000000, now, now, 0)
               state_packed == ProgramState_pack(state, zeroed(n))
               state_unpacked == ProgramState_unpack(zeroed(n))
               packed == LiquidityContribution_pack(contribution, zeroed(n))
               unpacked == LiquidityContribution_unpack(zeroed(n))
           IN  /\ n < 176 => state_packed.err # "Ok" /\ "data" \notin DOMAIN state_packed
               /\ n < 136 =>
                      state_unpacked.err # "Ok" /\ "value" \notin DOMAIN state_unpacked
               /\ n < 64 => /\ packed.err # "Ok" /\ "data" \notin DOMAIN packed
                            /\ unpacked.err # "Ok" /\ "value" \notin DOMAIN unpacked
    /\ \A admin \in {"admin", "bob"}, rates \in PercentRateSets :
           LET r == complete_process_update_parameters(admin, TRUE,
                                                       find_program_state_address, rates)
           IN  Len(accounts[find_program_state_address]) < 176 =>
                   /\ r.err # "Ok"
                   /\ After(r) = [accounts |-> accounts, tok |-> tok]
    /\ \A user \in Users :
           LET liq_key == find_liquidity_contribution_address(user)
               r == process_withdraw_liquidity(user, TRUE, liq_key, "liquidity_yot",
                                               Yot(user), TRUE)
           IN  Len(accounts[liq_key]) < 64 =>
                   /\ r.err # "Ok"
                   /\ After(r) = [accounts |-> accounts, tok |-> tok]

(* The state account holds the 136 bytes of the old layout after an        *)
(* instruction was committed: an UpdateParameters of its admin unpacks it  *)
(* and is refused when it packs the new state into the 136 bytes.          *)
C28_Witness ==
    /\ ops > 0
    /\ Len(accounts[find_program_state_address]) = OLD_PROGRAM_STATE_LEN
    /\ ProgramState_unpack(accounts[find_program_state_address]).err = "Ok"
    /\ complete_process_update_parameters("admin", TRUE, find_program_state_address,
                                          PercentRates).why = "destination too small"
    /\ \E user \in Users :
           /\ accounts[find_liquidity_contribution_address(user)] = <<>>
           /\ process_withdraw_liquidity(
                  user, TRUE, find_liquidity_contribution_address(user),
                  "liquidity_yot", Yot(user), TRUE).why
                  = "liquidity contribution too short"

(* C39: when the state account holds 136 to 175 bytes, an UpdateParameters *)
(* signed by the admin it records, with rates the handler accepts, unpacks *)
(* the old layout and is refused with InvalidAccountData when it packs;    *)
(* the account keeps its bytes.                                            *)
C39_OldLayoutNeverRewritten ==
    LET data == accounts[find_program_state_address]
        unpacked == ProgramState_unpack(data)
    IN  (Len(data) >= 136 /\ Len(data) <= 175) =>
            /\ unpacked.err = "Ok"
            /\ \A rates \in PercentRateSets :
                   LET r == complete_process_update_parameters(
                                unpacked.value.admin, TRUE, find_program_state_address,
                                rates)
                   IN  /\ r.err \in {"InvalidAccountData", "InvalidArgument"}
                       /\ rates.lp + rates.cashback + rates.fee <= 100 =>
                              /\ r.err = "InvalidAccountData"
                              /\ r.why = "destination too small"
                       /\ After(r).accounts[find_program_state_address] = data

(* Instructions have been committed while the state account holds 175      *)
(* bytes, and the admin's UpdateParameters is refused at pack.             *)
C39_Witness ==
    /\ ops > 1
    /\ Len(accounts[find_program_state_address]) = PROGRAM_STATE_LEN - 1
    /\ ProgramState_unpack(accounts[find_program_state_address]).value.admin = "admin"
    /\ complete_process_update_parameters(
           "admin", TRUE, find_program_state_address,
           [lp |-> 50, fee |-> 1, cashback |-> 10, swap |-> 1, referral |-> 0]).why
           = "destination too small"

(* C40: every handler the dispatcher names is invoked for some instruction *)
(* data; in particular some first byte makes it invoke                     *)
(* process_repair_program_state.  The instruction data tried are a first   *)
(* byte followed by the amount of the last committed instruction and       *)
(* zeros, cut to each length the dispatcher distinguishes.                 *)
C40_EveryHandlerDispatched ==
    \A i \in DOMAIN CompleteArms :
        \E byte \in 0 .. 255, len \in {1, 9, 17, 41, 49} :
            complete_process_instruction(
                SubSeq(<<byte>> \o to_le_bytes(last.amount) \o zeroed(40), 1, len))
                = CompleteArms[i][3]

---------------------------------------------------------------------------
(* Properties of the staking program, checked under SpecStaking.           *)

C35_AddedStakeEarnsFromNow ==
    \A user \in Users, amount \in StakeAmounts :
        LET key == staking_account_address(user)
            state == accounts[staking_program_state_address]
            before == accounts[key]
            r == process_stake(user, TRUE, Yot(user), "vault_yot", key,
                               staking_program_state_address, amount, TRUE)
        IN  (try_from_slice("StakingAccount", before) /\ r.err = "Ok") =>
                harvest_raw_rewards(r.accounts[key].staked_amount,
                                    now - r.accounts[key].last_harvest_time,
                                    state.stake_rate_per_second)
                    = harvest_raw_rewards(before.staked_amount,
                                          now - before.last_harvest_time,
                                          state.stake_rate_per_second)

(* C37: an Unstake of more than the record's staked_amount fails with      *)
(* InsufficientFunds and changes nothing; an Unstake that returns Ok       *)
(* lowers staked_amount by exactly the amount; and no staking record ever  *)
(* holds a staked_amount outside 0 .. u64::MAX.                            *)
C37_UnstakeNeverUnderflows ==
    \A user \in Users, amount \in StakeAmounts \cup {1, MaxStake + 1} :
        LET staking_key == staking_account_address(user)
            staking_data == accounts[staking_key]
            r == process_unstake(user, TRUE, Yot(user), "vault_yot", Yos(user),
                                 "program_yos", staking_key,
                                 staking_program_state_address,
                                 find_program_authority_address, amount, TRUE)
        IN  (try_from_slice("StakingAccount", staking_data) /\ staking_data.owner = user)
            => /\ staking_data.staked_amount \in 0 .. U64_MAX
               /\ amount > staking_data.staked_amount
                  => /\ r.err = "InsufficientFunds"
                     /\ After(r) = [accounts |-> accounts, tok |-> tok]
               /\ r.err = "Ok"
                  => /\ r.accounts[staking_key].staked_amount
                            = staking_data.staked_amount - amount
                     /\ r.accounts[staking_key].staked_amount >= 0
C37_Witness ==
    LET staking_data == accounts[staking_account_address(last.user)]
    IN  /\ last.op = "Unstake"
        /\ last.amount > 0
        /\ try_from_slice("StakingAccount", staking_data)
        /\ staking_data.staked_amount > 0
        /\ \E amount \in StakeAmounts : amount > staking_data.staked_amount

---------------------------------------------------------------------------
(* Properties of multihub_swap_v4.rs, checked under SpecV4.                *)

(* C38: under the rates an Initialize has stored, the four shares taken    *)
(* from amount_in never exceed it: net_swap_amount is computed without     *)
(* underflow for every amount.                                             *)
C38_NetSwapAmountNoUnderflow ==
    \A amount_in \in Amounts :
        LET s == accounts[find_program_state_address]
        IN  try_from_slice("ProgramState", s) => ~v4_swap_amounts(amount_in, s).underflow

---------------------------------------------------------------------------
(* Properties of multihub_swap.rs, checked under SpecMultihub.             *)

(* C32: ClaimRewards and ClaimYieldRewards pay out only when the signer is *)
(* the user recorded in the UserRewards or LpStaking record supplied: an   *)
(* instruction of either kind that was committed, and so has paid, was     *)
(* signed by the user whose key the record holds.                          *)
C32_OnlyRecordedUserIsPaid ==
    last.op \in {"ClaimRewards", "ClaimYieldRewards"}
        => pubkey_at(accounts[last.to], 0) = as_ref(last.signer)

(* C33: while ProgramState.is_paused is true, Swap, AddLiquidity,          *)
(* RemoveLiquidity, ClaimRewards, ClaimYieldRewards, StakeLpTokens and     *)
(* UnstakeLpTokens fail with EmergencyPaused and change no state.          *)
C33_Refused(r) ==
    /\ r.err = "Custom(12)"
    /\ After(r) = [accounts |-> accounts, tok |-> tok]
C33_PausedRefusesUserOperations ==
    LET state_key == find_program_state_address
    IN  (/\ multihub_ProgramState_try_from_slice(accounts[state_key])
         /\ is_paused(accounts[state_key]))
        => \A user \in Users, amount \in LpAmounts,
              staking_key \in {"lp_staking", "new_staking"} :
            /\ C33_Refused(multihub_process_swap(user, TRUE, state_key, amount, 0,
                                                 "sol", "yot", <<>>))
            /\ C33_Refused(process_add_liquidity(user, TRUE, state_key, amount, amount,
                                                 0))
            /\ C33_Refused(process_remove_liquidity(user, TRUE, state_key, amount, 0,
                                                    0))
            /\ C33_Refused(multihub_process_claim_rewards(
                               user, TRUE, Yos(user), "user_rewards", "program_yos",
                               find_program_authority_address, TRUE))
            /\ C33_Refused(process_claim_yield_rewards(
                               user, TRUE, Yos(user), staking_key, "program_yos",
                               find_program_authority_address, TRUE))
            /\ C33_Refused(process_stake_lp_tokens(user, TRUE, Yot(user), "vault_yot",
                                                   staking_key, amount, TRUE))
            /\ C33_Refused(process_unstake_lp_tokens(
                               user, TRUE, Yot(user), "vault_yot", staking_key,
                               find_program_authority_address, amount, TRUE))

(* C34: the is_paused and admin fields of an initialized ProgramState      *)
(* change only in an EmergencyPause or UpdateParameters signed by the      *)
(* admin the state records, and either instruction by anyone else fails    *)
(* with InvalidAuthority.                                                  *)
C34_AdminAndPauseGuarded ==
    [][LET state_key == find_program_state_address
           data == accounts[state_key]
       IN  (/\ multihub_ProgramState_try_from_slice(data)
            /\ u8_at(data, 0) = 1)
           => /\ array_ref(accounts'[state_key], 1, 33) # array_ref(data, 1, 33)
                 => /\ last'.op \in {"EmergencyPause", "UpdateParameters"}
                    /\ as_ref(last'.signer) = state_admin(data)
              /\ \A other \in {"admin", "bob"}, pause \in BOOLEAN,
                    params \in MultihubParams :
                    as_ref(other) # state_admin(data)
                    => /\ multihub_process_emergency_pause(other, TRUE, state_key,
                                                           pause).err = "Custom(3)"
                       /\ multihub_process_update_parameters(other, TRUE, state_key,
                                                             params).err = "Custom(3)"
      ]_vars

====
